---- MODULE Spec2Model ----
(***************************************************************************)
(* A model of the schedulers library: basic_thread_pool with its          *)
(* thread_pool_task_queue (mutex, condition variable, done flag), the     *)
(* round-robin schedule() and the work-stealing run() loop.               *)
(***************************************************************************)
EXTENDS Integers, Sequences, FiniteSets, TLC

(* ---- bounds ---- *)
\* largest thread count a constructor call asks for
MaxRequested == 2
\* largest value std::thread::hardware_concurrency() reports
MaxHardware == 1
\* number of payloads (work_t objects) ever built
MaxPayloads == 2

\* number of payloads ever pushed onto the main-thread queue
MaxMainPayloads == 3
\* bytes the signal pipe of android_main_looper holds before write() fails
\* with EAGAIN (the kernel's pipe buffer, scaled down)
PipeCapacity == 2

\* sizeof(void*) in bytes (scaled down); a byte has the values of Byte
PtrSize == 2

\* work_item objects that are ever constructed
MaxItems == 3
\* work_items that are constructed from a callable
MaxCallables == 2
\* invocations of work_items
MaxInvocations == 2
\* moves of one callable from work_item to work_item
MaxMoves == 2

\* Java threads that call shutdown() or finalize()
MaxJavaThreads == 2
\* threads that call push, try_pop and clear of the main-thread queue
MaxQueueThreads == 2
\* android_main_looper objects of the process
MaxLoopers == 2
\* calls of shutdown() by one Java thread
MaxShutdownCalls == 2
\* submissions to the shared pool
MaxSharedSubmissions == 2

(* ---- program constants ---- *)

\* the number of values of std::atomic<unsigned> _next_thread: 2^32, scaled
\* down to 2^3
CounterModulus == 8
\* run(): how many times a worker tries to steal before sticking to its own queue
rounds == 8

NoThread == -1
Empty == 0

VARIABLES
  ctor,          \* which constructor was called: "thread_pool" or "basic_thread_pool"
  requested,     \* the num_threads argument of the constructor call
  num_threads,   \* basic_thread_pool::_num_threads
  queue,         \* thread_pool_task_queue::_queue of each element of _queues
  mutex,         \* thread_pool_task_queue::_mutex: the owning thread or NoThread
  ready,         \* thread_pool_task_queue::_ready: the threads blocked in wait()
  done,          \* thread_pool_task_queue::_done
  next_thread,   \* basic_thread_pool::_next_thread
  threads,       \* basic_thread_pool::_threads: joinable flag of each handle
  opc,           \* position of the owning thread (constructor, live, destructor)
  oi,            \* loop index of the destructor's two loops
  dtor_thread,   \* the thread the destructor runs on
  wpc,           \* position of each worker in run()
  wi,            \* run(): the steal loop's i
  wf,            \* run(): the local work_t f (Empty or a payload)
  spc,           \* position of each thread in schedule(work_t&&)
  sthread,       \* schedule(): the local `thread`
  si,            \* schedule(): the loop's i
  sf,            \* schedule(): the work_t f being submitted
  born,          \* number of payloads whose construction was attempted
  alloc_failed,  \* payloads whose construction threw (allocator failure)
  invokers,      \* per payload: the threads that invoked it, in order
  dropped,       \* per payload: how often it was destroyed without invocation
  pushLog,       \* per queue: every payload appended, in order
  popLog,        \* per queue: every payload popped, in order
  doneLog,       \* per queue: the payloads it held when done() set _done
  mkind,         \* platform of the main-thread scheduler: "android",
                 \* "libdispatch", or "none" before the first is constructed
  mlife,         \* the main-thread scheduler object: "none", "live",
                 \* "unregistered" (inside ~android_main_looper), "destroyed"
  mqueue,        \* main_thread_task_queue::_queue
  msignals,      \* signals pending in the event loop: unread bytes of the
                 \* pipe, or blocks waiting in the main dispatch queue
  mspc,          \* position of the submitting thread in schedule()
  mcpc,          \* position of the main thread in the trampoline
  mcf,           \* the trampoline's local payload f
  mborn,         \* number of payloads pushed onto the main-thread queue
  mpushLog,      \* every payload pushed onto the main-thread queue, in order
  minvoked,      \* every payload invoked on the main thread, in order
  mdropped,      \* payloads destroyed by clear()
  msent,         \* signals handed to the event loop so far
  mreturned,     \* schedule() calls that returned normally
  mattempts,     \* trampoline runs that got their signal (delivery attempts)
  mtrypops,      \* try_pop() calls made by the trampoline
  mcleared,      \* a scheduler's destructor has called clear()
  cb,            \* one package_task_as_c_callback call: the handle it
                 \* returned, the node it allocated and what was done with it
  items,         \* the work_item objects: lifetime, _target, object in _buffer
  nodes,         \* the heap: the callable each fun_with_alloc node holds
  origin,        \* each callable a work_item was constructed from: its traits
                 \* and the allocations, live instances and runs it caused
  effects,       \* the callables that ran, in order
  item_ub,       \* a null _target was dereferenced, or a dead object destroyed
  jdestroyed,    \* SharedNativeThreadPoolExecutor.destroyed (AtomicBoolean)
  jpc,           \* each Java thread's position in shutdown()
  jold,          \* each Java thread's local variable destroyed
  jcalls,        \* calls of shutdown() each Java thread has begun
  jgas,          \* the threads that executed getAndSet, in order
  nativeShutdowns, \* the threads that called nativeShutdown, in order
  use_count,     \* use count of the std::shared_ptr<pool_t> control block
  cpp_owner,     \* the java_shared_native_pool: "none", "alive", "destroyed"
  jhandle,       \* the CppProxyHandle behind nativeRef: "none", "alive",
                 \* "deleted"
  shared_pool,   \* the pool_t made by make_shared: "none", "running",
                 \* "stopped" (destroyed, its threads joined)
  jaccepted,     \* submissions the shared pool took
  jub,           \* a deleted handle or a destroyed pool was used
  qmutex,        \* main_thread_task_queue::_mutex: the owning thread or
                 \* NoThread
  qpc,           \* each thread's position in the queue operation it called
  qop,           \* the operation each thread is in: "push", "try_pop",
                 \* "clear", or "none"
  qf,            \* push's argument f, try_pop's output f
  qtemp,         \* clear(): what is left of temp, first the payload whose
                 \* destructor is running
  qreentered,    \* per payload: the queue operation its destructor called
  loopers,       \* the android_main_looper objects: lifetime, unread bytes
                 \* of the pipe, position of the thread in schedule()
  mvia           \* per payload: the scheduler it was submitted through

vars == <<ctor, requested, num_threads, queue, mutex, ready, done,
          next_thread, threads, opc, oi, dtor_thread, wpc, wi, wf, spc,
          sthread, si, sf,
          born, alloc_failed, invokers, dropped, pushLog, popLog,
          doneLog, mkind, mlife, mqueue, msignals, mspc, mcpc, mcf, mborn,
          mpushLog, minvoked, mdropped, msent, mreturned, mattempts, mtrypops,
          mcleared, cb, items, nodes, origin, effects, item_ub,
          jdestroyed, jpc, jold, jcalls, jgas, nativeShutdowns, use_count,
          cpp_owner, jhandle, shared_pool, jaccepted, jub,
          qmutex, qpc, qop, qf, qtemp, qreentered, loopers, mvia>>

ctorVars == <<ctor, requested, num_threads>>
workerVars == <<wpc, wi, wf>>
schedVars == <<spc, sthread, si, sf>>
ownerVars == <<threads, opc, oi, dtor_thread>>
payloadVars == <<born, alloc_failed, invokers, dropped>>
logVars == <<pushLog, popLog, doneLog>>

\* the thread pool
poolVars == <<ctorVars, queue, mutex, ready, done, next_thread, ownerVars,
              workerVars, schedVars, payloadVars, logVars>>

\* the main-thread schedulers and the main-thread queue
mainVars == <<mkind, mlife, mqueue, msignals, mspc, mcpc, mcf, mborn,
              mpushLog, minvoked, mdropped, msent, mreturned, mattempts,
              mtrypops, mcleared>>

\* detail::work_item
itemVars == <<items, nodes, origin, effects, item_ub>>

\* SharedNativeThreadPoolExecutor and java_shared_native_pool
javaVars == <<jdestroyed, jpc, jold, jcalls, jgas, nativeShutdowns, use_count,
              cpp_owner, jhandle, shared_pool, jaccepted, jub>>

\* several android_main_looper objects
looperVars == <<loopers, mvia>>

\* main_thread_task_queue at the granularity of its mutex
queueVars == <<qmutex, qpc, qop, qf, qtemp, qreentered>>

\* what is outside the thread pool and the main-thread schedulers
utilVars == <<cb, itemVars, javaVars, queueVars, looperVars>>

\* everything outside the thread pool
outsideVars == <<mainVars, utilVars>>

\* what package_task_as_c_callback and its handle leave alone
callbackFrame == <<poolVars, mainVars, itemVars, javaVars, queueVars,
                   looperVars>>

\* what a work_item leaves alone
itemFrame == <<poolVars, mainVars, cb, javaVars, queueVars, looperVars>>

\* what the Java executor and the shared pool leave alone
javaFrame == <<poolVars, mainVars, cb, itemVars, queueVars, looperVars>>

Max(a, b) == IF a >= b THEN a ELSE b

Payloads == 1..MaxPayloads
Workers == 0..(num_threads - 1)
\* the thread that constructs, uses and destroys the pool; never a pool thread
Owner == MaxRequested + MaxHardware + 1
Threads == Workers \cup {Owner}

(* ---- construction ---- *)

\* basic_thread_pool(ThreadFactory f, unsigned num_threads): _num_threads
basic_thread_pool_num_threads(n) == Max(1, n)

\* thread_pool(int num_threads) : basic_thread_pool(make_thread)
\* the argument is not forwarded: the base's default argument is used
thread_pool_num_threads(n, hw) == basic_thread_pool_num_threads(hw)

NumThreadsOf(c, n, hw) ==
  IF c = "thread_pool" THEN thread_pool_num_threads(n, hw)
  ELSE basic_thread_pool_num_threads(n)

\* no callable has been packaged as a C callback yet
NotPackaged ==
  [handle |-> "none",       \* the c_callback object: "none", "alive", "destroyed"
   strategy |-> "none",     \* the package_task_as_c_callback_impl overload used
   is_ref |-> FALSE,        \* the input is a std::reference_wrapper
   small |-> FALSE,         \* sizeof(function_t) <= sizeof(void*)
   trivial |-> FALSE,       \* function_t is trivially copyable
   throws |-> FALSE,        \* the callable throws when it is invoked
   owner |-> "null",        \* _data: "owning" (unique_ptr holds the node),
                            \* "null" (released), "value" (plain data_t)
   node |-> "none",         \* the allocated node_t: "none", "live", "freed"
   allocs |-> 0,            \* allocations made through the allocator
   deallocs |-> 0,          \* deallocations made through the allocator
   live |-> 0,              \* live instances of the stored copy of the callable
   referent |-> 1,          \* live instances of the caller's own callable
   invoked |-> 0,           \* how often the callable's body ran
   exc |-> 0,               \* exceptions that reached the caller of fn_ptr
   dtor_frees |-> 0,        \* node releases made by the handle's destructor
   call_frees |-> 0,        \* node releases made inside fn_ptr
   released |-> FALSE,      \* release() or operator() was called
   calls |-> 0,             \* calls of fn_ptr, raw and through operator()
   raw |-> 0,               \* calls of fn_ptr made by the user with a pair
   direct |-> 0,            \* calls of operator()
   got |-> "none",          \* data of the pair the last get() returned
   rel |-> "none",          \* data of the pair release() returned
   value |-> << >>,         \* object representation of an elided callable
   word |-> << >>,          \* object representation of data_t::ptr
   seen |-> << >>,          \* representation of the callable fn_ptr invoked
   ub |-> FALSE]            \* undefined behaviour has happened

JavaThreads == 1..MaxJavaThreads

\* the threads that use the main-thread queue
QueueThreads == 1..MaxQueueThreads

\* the android_main_looper objects; no scheduler
Loopers == 1..MaxLoopers
NoLooper == 0

\* work_item objects, heap nodes and callables
Items == 1..MaxItems
Nodes == 1..MaxCallables
Callables == 1..MaxCallables

\* no object of a callable type
NoObject == 0

\* the null pointer, and the address of the _buffer member of work_item i
\* (the addresses of the heap nodes are the elements of Nodes)
nullptr == 0
BufferAddr(i) == MaxCallables + i

\* a work_item whose constructor has not run yet
NoItem == [life |-> "unborn", target |-> nullptr, buffer |-> NoObject]

\* a callable no work_item was constructed from yet
NoOrigin ==
  [made |-> FALSE,        \* a work_item was constructed from it
   fits |-> FALSE,        \* sizeof(fun_without_alloc<F>) <= sizeof(_buffer)
   nothrow_move |-> FALSE, \* std::is_nothrow_move_constructible<F>
   throws |-> FALSE,      \* F::operator() throws
   kind |-> "none",       \* the emplace_impl overload: "inline" or "heap"
   allocs |-> 0,          \* allocations through the allocator
   deallocs |-> 0,        \* deallocations through the allocator
   live |-> 0,            \* live instances of F
   runs |-> 0,            \* calls of F::operator()
   moves |-> 0,           \* moves of the work_item that holds it
   exc |-> 0]             \* exceptions that left work_item::operator()

\* the state when the constructor body is entered: the member initialisers
\* have run (_queues{_num_threads}, _threads empty, _next_thread{0})
MembersInit ==
  /\ queue = [q \in 0..(num_threads - 1) |-> << >>]
  /\ mutex = [q \in 0..(num_threads - 1) |-> NoThread]
  /\ ready = [q \in 0..(num_threads - 1) |-> {}]
  /\ done = [q \in 0..(num_threads - 1) |-> FALSE]
  /\ next_thread = 0
  /\ threads = << >>
  /\ opc = "start"
  /\ oi = 0
  /\ dtor_thread = Owner
  /\ wpc = [w \in 0..(num_threads - 1) |-> "not_started"]
  /\ wi = [w \in 0..(num_threads - 1) |-> 0]
  /\ wf = [w \in 0..(num_threads - 1) |-> Empty]
  /\ spc = [t \in (0..(num_threads - 1)) \cup {Owner} |-> "none"]
  /\ sthread = [t \in (0..(num_threads - 1)) \cup {Owner} |-> 0]
  /\ si = [t \in (0..(num_threads - 1)) \cup {Owner} |-> 0]
  /\ sf = [t \in (0..(num_threads - 1)) \cup {Owner} |-> Empty]
  /\ born = 0
  /\ alloc_failed = {}
  /\ invokers = [p \in Payloads |-> << >>]
  /\ dropped = [p \in Payloads |-> 0]
  /\ pushLog = [q \in 0..(num_threads - 1) |-> << >>]
  /\ popLog = [q \in 0..(num_threads - 1) |-> << >>]
  /\ doneLog = [q \in 0..(num_threads - 1) |-> << >>]
  /\ mkind = "none"
  /\ mlife = "none"
  /\ mqueue = << >>
  /\ msignals = 0
  /\ mspc = "none"
  /\ mcpc = "idle"
  /\ mcf = Empty
  /\ mborn = 0
  /\ mpushLog = << >>
  /\ minvoked = << >>
  /\ mdropped = {}
  /\ msent = 0
  /\ mreturned = 0
  /\ mattempts = 0
  /\ mtrypops = 0
  /\ mcleared = FALSE
  /\ cb = NotPackaged
  /\ items = [i \in Items |-> NoItem]
  /\ nodes = [n \in Nodes |-> NoObject]
  /\ origin = [v \in Callables |-> NoOrigin]
  /\ effects = << >>
  /\ item_ub = FALSE
  /\ jdestroyed = FALSE
  /\ jpc = [t \in JavaThreads |-> "idle"]
  /\ jold = [t \in JavaThreads |-> FALSE]
  /\ jcalls = [t \in JavaThreads |-> 0]
  /\ jgas = << >>
  /\ nativeShutdowns = << >>
  /\ use_count = 0
  /\ cpp_owner = "none"
  /\ jhandle = "none"
  /\ shared_pool = "none"
  /\ jaccepted = 0
  /\ jub = FALSE
  /\ qmutex = NoThread
  /\ qpc = [t \in QueueThreads |-> "idle"]
  /\ qop = [t \in QueueThreads |-> "none"]
  /\ qf = [t \in QueueThreads |-> Empty]
  /\ qtemp = [t \in QueueThreads |-> << >>]
  /\ qreentered = [p \in 1..MaxMainPayloads |-> "none"]
  /\ loopers = [s \in Loopers |-> [life |-> "none", pipe |-> 0, spc |-> "none"]]
  /\ mvia = [p \in 1..MaxMainPayloads |-> NoLooper]

\* the constructor is called with any size up to MaxRequested;
\* hardware is what std::thread::hardware_concurrency() returns (0 when unknown)
Init ==
  /\ ctor \in {"thread_pool", "basic_thread_pool"}
  /\ requested \in 0..MaxRequested
  /\ \E hardware \in 0..MaxHardware :
       num_threads = NumThreadsOf(ctor, requested, hardware)
  /\ MembersInit

\* the process is running: std::terminate has not been called
Alive == opc # "terminated"

\* thread t is executing the destructor body
InDtor(t) ==
  /\ dtor_thread = t
  /\ opc \in {"done_lock", "done_set", "done_notify", "join"}

\* start(): one iteration of the loop, the factory returns a thread handle
\* and the new thread begins run(i)
StartThread ==
  /\ opc = "start"
  /\ Len(threads) < num_threads
  /\ threads' = Append(threads, TRUE)
  /\ wpc' = [wpc EXCEPT ![Len(threads)] = "try_pop"]
  /\ opc' = IF Len(threads) + 1 = num_threads THEN "live" ELSE "start"
  /\ UNCHANGED <<outsideVars,
                 ctorVars, queue, mutex, ready, done, next_thread, oi,
                 dtor_thread, wi, wf, schedVars, payloadVars, logVars>>

\* start(): the factory throws in iteration Len(threads). Nothing catches it:
\* the members are destroyed during unwinding, ~basic_thread_pool() does not
\* run. Destroying a joinable std::thread calls std::terminate.
FactoryThrows ==
  /\ opc = "start"
  /\ Len(threads) < num_threads
  /\ opc' = IF \E i \in 1..Len(threads) : threads[i] THEN "terminated"
            ELSE "ctor_threw"
  /\ UNCHANGED <<outsideVars,
                 ctorVars, queue, mutex, ready, done, next_thread, threads, oi,
                 dtor_thread, workerVars, schedVars, payloadVars, logVars>>

(* ---- thread_pool_task_queue ---- *)

\* a notify_one that is left out: nobody is woken
notify_one_omitted(q) ==
  /\ ready' = ready
  /\ wpc' = wpc

\* a notify_all that is left out: nobody is woken
notify_all_omitted(q) ==
  /\ ready' = ready
  /\ wpc' = wpc

\* std::condition_variable::notify_one on _ready of queue q: one of the
\* blocked threads (if any) leaves wait() and has to reacquire the mutex
notify_one(q) ==
  IF ready[q] = {}
  THEN /\ ready' = ready
       /\ wpc' = wpc
  ELSE \E w \in ready[q] :
         /\ ready' = [ready EXCEPT ![q] = @ \ {w}]
         /\ wpc' = [wpc EXCEPT ![w] = "pop_lock"]

\* std::condition_variable::notify_all on _ready of queue q
notify_all(q) ==
  /\ ready' = [ready EXCEPT ![q] = {}]
  /\ wpc' = [w \in DOMAIN wpc |->
               IF w \in ready[q] THEN "pop_lock" ELSE wpc[w]]

\* an insertion at the wrong end: _queue.emplace_front(move(f))
emplace_front(qu, f) == <<f>> \o qu

\* _queue.emplace_back(move(f))
emplace_back(qu, f) == Append(qu, f)

\* taking the element at the wrong end: _queue.back()
back(qu) == qu[Len(qu)]

\* _queue.front()
front(qu) == Head(qu)

\* a pop_front() that is forgotten: the moved-from front stays in the queue
pop_front_forgotten(qu) == qu

\* _queue.pop_front()
pop_front(qu) == Tail(qu)

(* ---- basic_thread_pool::schedule ---- *)

\* unsigned arithmetic: the result modulo 2^32 (scaled down)
ToUnsigned(n) == n % CounterModulus

\* the queue index schedule() computes in iteration i: thread and i are
\* unsigned, so thread + i wraps before % _num_threads is applied
ScheduleIndex(thread, i) == ToUnsigned(thread + i) % num_threads

\* a steal loop that starts at queue 0 whatever the worker
RunIndexFromZero(index, i) == i % num_threads

\* the queue index run(index) computes in iteration i
RunIndex(index, i) == (index + i) % num_threads

\* thread t may call the pool's operator(): the owner while the pool is
\* live, a worker from inside the task it is running
MaySubmit(t) ==
  /\ Alive
  /\ ~InDtor(t)
  /\ spc[t] = "none"
  /\ born < MaxPayloads
  /\ \/ t = Owner /\ opc = "live"
     \/ t \in Workers /\ wpc[t] = "running"

\* a schedule() that takes its round-robin ticket before the payload is
\* built: the allocator failure leaves _next_thread advanced
ScheduleAllocFailAfterTicket(t) ==
  /\ MaySubmit(t)
  /\ born' = born + 1
  /\ alloc_failed' = alloc_failed \cup {born + 1}
  /\ next_thread' = next_thread + 1
  /\ UNCHANGED <<outsideVars,
                 ctorVars, queue, mutex, ready, done, ownerVars,
                 workerVars, schedVars, invokers, dropped, logVars>>

\* schedule(alloc, f): work_t{std::allocator_arg, alloc, f} throws (the
\* allocator fails in allocate_unique) before schedule(work_t&&) is entered
ScheduleAllocFail(t) ==
  /\ MaySubmit(t)
  /\ born' = born + 1
  /\ alloc_failed' = alloc_failed \cup {born + 1}
  /\ UNCHANGED <<outsideVars,
                 ctorVars, queue, mutex, ready, done, next_thread, ownerVars,
                 workerVars, schedVars, invokers, dropped, logVars>>

\* schedule(work_t&& f): the payload was built; auto thread = _next_thread++
ScheduleBegin(t) ==
  /\ MaySubmit(t)
  /\ born' = born + 1
  /\ sf' = [sf EXCEPT ![t] = born + 1]
  /\ sthread' = [sthread EXCEPT ![t] = next_thread]
  /\ next_thread' = ToUnsigned(next_thread + 1)
  /\ si' = [si EXCEPT ![t] = 0]
  /\ spc' = [spc EXCEPT ![t] = "try_push"]
  /\ UNCHANGED <<outsideVars,
                 ctorVars, queue, mutex, ready, done, ownerVars, workerVars,
                 alloc_failed, invokers, dropped, logVars>>

\* try_push with the mutex obtained: lock_t lock{_mutex, std::try_to_lock};
\* _queue.emplace_back(move(f)); unlock. The critical section is one step: no
\* thread sees the queue inside it, and a try_lock that would meet the held
\* mutex is the failure that TryPushFail and TryPopFail allow at any time.
TryPushTrue(t) ==
  /\ Alive
  /\ spc[t] = "try_push"
  /\ LET q == ScheduleIndex(sthread[t], si[t]) IN
       /\ mutex[q] = NoThread
       /\ queue' = [queue EXCEPT ![q] = emplace_back(@, sf[t])]
       /\ pushLog' = [pushLog EXCEPT ![q] = Append(@, sf[t])]
  /\ sf' = [sf EXCEPT ![t] = Empty]
  /\ spc' = [spc EXCEPT ![t] = "try_push_notify"]
  /\ UNCHANGED <<outsideVars,
                 ctorVars, mutex, ready, done, next_thread, ownerVars,
                 workerVars, sthread, si, payloadVars, popLog, doneLog>>

\* a try_push that moves the payload out of f before it tests the lock
TryPushFailTakesPayload(t) ==
  /\ Alive
  /\ spc[t] = "try_push"
  /\ sf' = [sf EXCEPT ![t] = Empty]
  /\ si' = [si EXCEPT ![t] = IF @ + 1 < num_threads THEN @ + 1 ELSE 0]
  /\ spc' = [spc EXCEPT ![t] =
               IF si[t] + 1 < num_threads THEN "try_push" ELSE "push_lock"]
  /\ UNCHANGED <<outsideVars,
                 ctorVars, queue, mutex, ready, done, next_thread, ownerVars,
                 workerVars, sthread, payloadVars, logVars>>

\* try_push: if(!lock) return false; the mutex is held by another thread, or
\* try_lock fails spuriously as std::mutex::try_lock may. f is untouched;
\* schedule() goes on to the next queue and after the last one falls through
\* to push()
TryPushFail(t) ==
  /\ Alive
  /\ spc[t] = "try_push"
  /\ si' = [si EXCEPT ![t] = IF @ + 1 < num_threads THEN @ + 1 ELSE 0]
  /\ spc' = [spc EXCEPT ![t] =
               IF si[t] + 1 < num_threads THEN "try_push" ELSE "push_lock"]
  /\ UNCHANGED <<outsideVars,
                 ctorVars, queue, mutex, ready, done, next_thread, ownerVars,
                 workerVars, sthread, sf, payloadVars, logVars>>

\* try_push: _ready.notify_one(); return true; schedule() returns
TryPushNotify(t) ==
  /\ Alive
  /\ spc[t] = "try_push_notify"
  /\ notify_one(ScheduleIndex(sthread[t], si[t]))
  /\ spc' = [spc EXCEPT ![t] = "none"]
  /\ UNCHANGED <<outsideVars,
                 ctorVars, queue, mutex, done, next_thread, ownerVars, wi, wf,
                 sthread, si, sf, payloadVars, logVars>>

\* push: lock_t lock{_mutex}; blocks until the mutex of queue thread % N is free
PushLock(t) ==
  /\ Alive
  /\ spc[t] = "push_lock"
  /\ mutex[ScheduleIndex(sthread[t], 0)] = NoThread
  /\ mutex' = [mutex EXCEPT ![ScheduleIndex(sthread[t], 0)] = t]
  /\ spc' = [spc EXCEPT ![t] = "push_cs"]
  /\ UNCHANGED <<outsideVars,
                 ctorVars, queue, ready, done, next_thread, ownerVars,
                 workerVars, sthread, si, sf, payloadVars, logVars>>

\* a push that runs the task on the submitting thread instead of queueing it
PushBodyCallerRuns(t) ==
  /\ Alive
  /\ spc[t] = "push_cs"
  /\ invokers' = [invokers EXCEPT ![sf[t]] = Append(@, t)]
  /\ mutex' = [mutex EXCEPT ![ScheduleIndex(sthread[t], 0)] = NoThread]
  /\ sf' = [sf EXCEPT ![t] = Empty]
  /\ spc' = [spc EXCEPT ![t] = "push_notify"]
  /\ UNCHANGED <<outsideVars,
                 ctorVars, queue, ready, done, next_thread, ownerVars,
                 workerVars, sthread, si, born, alloc_failed, dropped, logVars>>

\* push: _queue.emplace_back(move(f)); unlock
PushBody(t) ==
  /\ Alive
  /\ spc[t] = "push_cs"
  /\ LET q == ScheduleIndex(sthread[t], 0) IN
       /\ queue' = [queue EXCEPT ![q] = emplace_back(@, sf[t])]
       /\ pushLog' = [pushLog EXCEPT ![q] = Append(@, sf[t])]
       /\ mutex' = [mutex EXCEPT ![q] = NoThread]
  /\ sf' = [sf EXCEPT ![t] = Empty]
  /\ spc' = [spc EXCEPT ![t] = "push_notify"]
  /\ UNCHANGED <<outsideVars,
                 ctorVars, ready, done, next_thread, ownerVars, workerVars,
                 sthread, si, payloadVars, popLog, doneLog>>

\* push: _ready.notify_one(); schedule() returns
PushNotify(t) ==
  /\ Alive
  /\ spc[t] = "push_notify"
  /\ notify_one(ScheduleIndex(sthread[t], 0))
  /\ spc' = [spc EXCEPT ![t] = "none"]
  /\ UNCHANGED <<outsideVars,
                 ctorVars, queue, mutex, done, next_thread, ownerVars, wi, wf,
                 sthread, si, sf, payloadVars, logVars>>

(* ---- basic_thread_pool::run ---- *)

\* run(): the steal loop's bound
StealAttempts == num_threads * rounds

\* a steal loop after which a worker that found nothing returns from run()
AfterFailedTryPopGivesUp(w) ==
  /\ wi' = [wi EXCEPT ![w] = IF @ + 1 < StealAttempts THEN @ + 1 ELSE 0]
  /\ wpc' = [wpc EXCEPT ![w] =
               IF wi[w] + 1 < StealAttempts THEN "try_pop" ELSE "exited"]

\* what follows a failed try_pop in iteration i of the steal loop: the next
\* iteration, or (f is empty) the blocking pop on the worker's own queue
AfterFailedTryPop(w) ==
  /\ wi' = [wi EXCEPT ![w] = IF @ + 1 < StealAttempts THEN @ + 1 ELSE 0]
  /\ wpc' = [wpc EXCEPT ![w] =
               IF wi[w] + 1 < StealAttempts THEN "try_pop" ELSE "pop_lock"]

\* try_pop: if(!lock ...) return false; the mutex is held by another thread
\* or try_lock fails spuriously
TryPopFail(w) ==
  /\ Alive
  /\ wpc[w] = "try_pop"
  /\ AfterFailedTryPop(w)
  /\ UNCHANGED <<outsideVars,
                 ctorVars, queue, mutex, ready, done, next_thread, ownerVars,
                 wf, schedVars, payloadVars, logVars>>

\* try_pop with the mutex obtained, on an empty queue:
\* if(... || _queue.empty()) return false;
TryPopEmpty(w) ==
  /\ Alive
  /\ wpc[w] = "try_pop"
  /\ mutex[RunIndex(w, wi[w])] = NoThread
  /\ queue[RunIndex(w, wi[w])] = << >>
  /\ AfterFailedTryPop(w)
  /\ UNCHANGED <<outsideVars,
                 ctorVars, queue, mutex, ready, done, next_thread, ownerVars,
                 wf, schedVars, payloadVars, logVars>>

\* try_pop with the mutex obtained, on a non-empty queue:
\* f = move(_queue.front()); _queue.pop_front(); return true; run() breaks
\* out of the steal loop. One step, as in TryPushTrue.
TryPopTrue(w) ==
  /\ Alive
  /\ wpc[w] = "try_pop"
  /\ LET q == RunIndex(w, wi[w]) IN
       /\ mutex[q] = NoThread
       /\ queue[q] # << >>
       /\ wf' = [wf EXCEPT ![w] = front(queue[q])]
       /\ popLog' = [popLog EXCEPT ![q] = Append(@, front(queue[q]))]
       /\ queue' = [queue EXCEPT ![q] = pop_front(@)]
  /\ wpc' = [wpc EXCEPT ![w] = "invoke"]
  /\ wi' = [wi EXCEPT ![w] = 0]
  /\ UNCHANGED <<outsideVars,
                 ctorVars, mutex, ready, done, next_thread, ownerVars,
                 schedVars, payloadVars, pushLog, doneLog>>

\* pop: lock_t lock{_mutex}, also the reacquisition when wait() returns
PopLock(w) ==
  /\ Alive
  /\ wpc[w] = "pop_lock"
  /\ mutex[w] = NoThread
  /\ mutex' = [mutex EXCEPT ![w] = w]
  /\ wpc' = [wpc EXCEPT ![w] = "pop_check"]
  /\ UNCHANGED <<outsideVars,
                 ctorVars, queue, ready, done, next_thread, ownerVars, wi, wf,
                 schedVars, payloadVars, logVars>>

\* a wait that blocks without releasing the mutex
PopWaitKeepsMutex(w) ==
  /\ Alive
  /\ wpc[w] = "pop_check"
  /\ queue[w] = << >> /\ ~done[w]
  /\ ready' = [ready EXCEPT ![w] = @ \cup {w}]
  /\ wpc' = [wpc EXCEPT ![w] = "pop_wait"]
  /\ UNCHANGED <<outsideVars,
                 ctorVars, queue, mutex, done, next_thread, ownerVars, wi, wf,
                 schedVars, payloadVars, logVars>>

\* pop with the mutex held: while(_queue.empty() && !_done) _ready.wait(lock);
\* wait() releases the mutex and blocks the thread in one step
PopWait(w) ==
  /\ Alive
  /\ wpc[w] = "pop_check"
  /\ queue[w] = << >> /\ ~done[w]
  /\ mutex' = [mutex EXCEPT ![w] = NoThread]
  /\ ready' = [ready EXCEPT ![w] = @ \cup {w}]
  /\ wpc' = [wpc EXCEPT ![w] = "pop_wait"]
  /\ UNCHANGED <<outsideVars,
                 ctorVars, queue, done, next_thread, ownerVars, wi, wf,
                 schedVars, payloadVars, logVars>>

\* a spurious wake-up of wait()
PopSpuriousWake(w) ==
  /\ Alive
  /\ wpc[w] = "pop_wait"
  /\ ready' = [ready EXCEPT ![w] = @ \ {w}]
  /\ wpc' = [wpc EXCEPT ![w] = "pop_lock"]
  /\ UNCHANGED <<outsideVars,
                 ctorVars, queue, mutex, done, next_thread, ownerVars, wi, wf,
                 schedVars, payloadVars, logVars>>

\* a pop that returns false as soon as _done is set, whatever the queue holds
PopFalseOnDone(w) ==
  /\ Alive
  /\ wpc[w] = "pop_check"
  /\ done[w]
  /\ mutex' = [mutex EXCEPT ![w] = NoThread]
  /\ wpc' = [wpc EXCEPT ![w] = "exited"]
  /\ UNCHANGED <<outsideVars,
                 ctorVars, queue, ready, done, next_thread, ownerVars, wi, wf,
                 schedVars, payloadVars, logVars>>

\* pop: if(_queue.empty()) return false; and run() breaks out of its loop
PopFalse(w) ==
  /\ Alive
  /\ wpc[w] = "pop_check"
  /\ queue[w] = << >> /\ done[w]
  /\ mutex' = [mutex EXCEPT ![w] = NoThread]
  /\ wpc' = [wpc EXCEPT ![w] = "exited"]
  /\ UNCHANGED <<outsideVars,
                 ctorVars, queue, ready, done, next_thread, ownerVars, wi, wf,
                 schedVars, payloadVars, logVars>>

\* pop: f = move(_queue.front()); _queue.pop_front(); return true;
PopTrue(w) ==
  /\ Alive
  /\ wpc[w] = "pop_check"
  /\ queue[w] # << >>
  /\ wf' = [wf EXCEPT ![w] = front(queue[w])]
  /\ popLog' = [popLog EXCEPT ![w] = Append(@, front(queue[w]))]
  /\ queue' = [queue EXCEPT ![w] = pop_front(@)]
  /\ mutex' = [mutex EXCEPT ![w] = NoThread]
  /\ wpc' = [wpc EXCEPT ![w] = "invoke"]
  /\ UNCHANGED <<outsideVars,
                 ctorVars, ready, done, next_thread, ownerVars, wi, schedVars,
                 payloadVars, pushLog, doneLog>>

\* run(): move(f)(); the task starts on worker w
Invoke(w) ==
  /\ Alive
  /\ wpc[w] = "invoke"
  /\ invokers' = [invokers EXCEPT ![wf[w]] = Append(@, w)]
  /\ wpc' = [wpc EXCEPT ![w] = "running"]
  /\ UNCHANGED <<outsideVars,
                 ctorVars, queue, mutex, ready, done, next_thread, ownerVars,
                 wi, wf, schedVars, born, alloc_failed, dropped, logVars>>

\* a run() whose work_t f is declared outside the loop: the next iteration
\* begins with the payload of the last one still in f
TaskReturnKeepsPayload(w) ==
  /\ Alive
  /\ wpc[w] = "running"
  /\ spc[w] = "none"
  /\ ~InDtor(w)
  /\ wi' = [wi EXCEPT ![w] = 0]
  /\ wpc' = [wpc EXCEPT ![w] = "try_pop"]
  /\ UNCHANGED <<outsideVars,
                 ctorVars, queue, mutex, ready, done, next_thread, ownerVars,
                 wf, schedVars, payloadVars, logVars>>

\* run(): the task returns, f goes out of scope, the next iteration begins
TaskReturn(w) ==
  /\ Alive
  /\ wpc[w] = "running"
  /\ spc[w] = "none"
  /\ ~InDtor(w)
  /\ wf' = [wf EXCEPT ![w] = Empty]
  /\ wi' = [wi EXCEPT ![w] = 0]
  /\ wpc' = [wpc EXCEPT ![w] = "try_pop"]
  /\ UNCHANGED <<outsideVars,
                 ctorVars, queue, mutex, ready, done, next_thread, ownerVars,
                 schedVars, payloadVars, logVars>>

(* ---- basic_thread_pool::~basic_thread_pool ---- *)

\* the payloads a queue still holds when it is destroyed are destroyed with it
DropAll(qs) ==
  [p \in Payloads |->
     dropped[p] + Cardinality({<<q, k>> \in (DOMAIN qs) \X (1..MaxPayloads) :
                                 k <= Len(qs[q]) /\ qs[q][k] = p})]

\* the destructor is entered, on the owner's thread, once the owner's calls
\* of the pool have returned
DtorBegin ==
  /\ opc = "live"
  /\ spc[Owner] = "none"
  /\ opc' = "done_lock"
  /\ oi' = 0
  /\ dtor_thread' = Owner
  /\ UNCHANGED <<outsideVars,
                 ctorVars, queue, mutex, ready, done, next_thread, threads,
                 workerVars, schedVars, payloadVars, logVars>>

\* done() on queue oi: lock_t lock{_mutex}
DoneLock ==
  /\ opc = "done_lock"
  /\ mutex[oi] = NoThread
  /\ mutex' = [mutex EXCEPT ![oi] = dtor_thread]
  /\ opc' = "done_set"
  /\ UNCHANGED <<outsideVars,
                 ctorVars, queue, ready, done, next_thread, threads, oi,
                 dtor_thread, workerVars, schedVars, payloadVars, logVars>>

\* done(): _done = true; unlock
DoneSet ==
  /\ opc = "done_set"
  /\ done' = [done EXCEPT ![oi] = TRUE]
  /\ mutex' = [mutex EXCEPT ![oi] = NoThread]
  /\ doneLog' = [doneLog EXCEPT ![oi] = queue[oi]]
  /\ opc' = "done_notify"
  /\ UNCHANGED <<outsideVars,
                 ctorVars, queue, ready, next_thread, threads, oi,
                 dtor_thread, workerVars, schedVars, payloadVars, pushLog,
                 popLog>>

\* done(): _ready.notify_all(); then the next queue, after the last queue
\* the join loop
DoneNotify ==
  /\ opc = "done_notify"
  /\ notify_all(oi)
  /\ oi' = IF oi + 1 < num_threads THEN oi + 1 ELSE 0
  /\ opc' = IF oi + 1 < num_threads THEN "done_lock" ELSE "join"
  /\ UNCHANGED <<outsideVars,
                 ctorVars, queue, mutex, done, next_thread, threads,
                 dtor_thread, wi, wf, schedVars, payloadVars, logVars>>

\* a join() that returns without waiting for the thread to finish
JoinWithoutWaiting ==
  /\ opc = "join"
  /\ threads' = [threads EXCEPT ![oi + 1] = FALSE]
  /\ oi' = IF oi + 1 < num_threads THEN oi + 1 ELSE 0
  /\ opc' = IF oi + 1 < num_threads THEN "join" ELSE "destroy_members"
  /\ UNCHANGED <<outsideVars,
                 ctorVars, queue, mutex, ready, done, next_thread,
                 dtor_thread, workerVars, schedVars, payloadVars, logVars>>

\* t.join() on thread oi returns once run(oi) has returned
Join ==
  /\ opc = "join"
  /\ wpc[oi] = "exited"
  /\ threads' = [threads EXCEPT ![oi + 1] = FALSE]
  /\ oi' = IF oi + 1 < num_threads THEN oi + 1 ELSE 0
  /\ opc' = IF oi + 1 < num_threads THEN "join" ELSE "destroy_members"
  /\ UNCHANGED <<outsideVars,
                 ctorVars, queue, mutex, ready, done, next_thread,
                 dtor_thread, workerVars, schedVars, payloadVars, logVars>>

\* after the destructor body: _threads and _queues are destroyed, and with
\* the queues the payloads they still hold
DestroyMembers ==
  /\ opc = "destroy_members"
  /\ dropped' = DropAll(queue)
  /\ queue' = [q \in DOMAIN queue |-> << >>]
  /\ opc' = "destroyed"
  /\ UNCHANGED <<outsideVars,
                 ctorVars, mutex, ready, done, next_thread, threads, oi,
                 dtor_thread, workerVars, schedVars, born, alloc_failed,
                 invokers, logVars>>

(* ---- specification ---- *)

Next ==
  \/ StartThread
  \/ FactoryThrows
  \/ \E t \in Threads : ScheduleAllocFail(t)
  \/ \E t \in Threads : ScheduleBegin(t)
  \/ \E t \in Threads : TryPushTrue(t)
  \/ \E t \in Threads : TryPushFail(t)
  \/ \E t \in Threads : TryPushNotify(t)
  \/ \E t \in Threads : PushLock(t)
  \/ \E t \in Threads : PushBody(t)
  \/ \E t \in Threads : PushNotify(t)
  \/ \E w \in Workers : TryPopFail(w)
  \/ \E w \in Workers : TryPopEmpty(w)
  \/ \E w \in Workers : TryPopTrue(w)
  \/ \E w \in Workers : PopLock(w)
  \/ \E w \in Workers : PopWait(w)
  \/ \E w \in Workers : PopSpuriousWake(w)
  \/ \E w \in Workers : PopFalse(w)
  \/ \E w \in Workers : PopTrue(w)
  \/ \E w \in Workers : Invoke(w)
  \/ \E w \in Workers : TaskReturn(w)
  \/ DtorBegin
  \/ DoneLock
  \/ DoneSet
  \/ DoneNotify
  \/ Join
  \/ DestroyMembers

Spec == Init /\ [][Next]_vars

(* ---- schedule() when _next_thread wraps ---- *)

\* a pool size that does not divide the number of values of the counter
WrapThreads == 3

\* basic_thread_pool(factory, WrapThreads)
WrapInit ==
  /\ ctor = "basic_thread_pool"
  /\ requested = WrapThreads
  /\ num_threads = NumThreadsOf(ctor, requested, 0)
  /\ MembersInit

\* one more submission whose payload is not followed: with nothing queued
\* and nobody inside schedule() or a task, schedule() takes its ticket, the
\* payload is queued, popped, invoked and destroyed, and the pool is as it
\* was but for _next_thread
QuiescentSubmission ==
  /\ Alive
  /\ opc = "live"
  /\ \A t \in Threads : spc[t] = "none"
  /\ \A q \in Workers : queue[q] = << >> /\ mutex[q] = NoThread
  /\ \A w \in Workers : wf[w] = Empty
  /\ next_thread' = ToUnsigned(next_thread + 1)
  /\ UNCHANGED <<outsideVars,
                 ctorVars, queue, mutex, ready, done, ownerVars,
                 workerVars, schedVars, payloadVars, logVars>>

\* construction and submissions to a pool of WrapThreads threads whose
\* workers are not scheduled meanwhile
WrapNext ==
  \/ StartThread
  \/ QuiescentSubmission
  \/ \E t \in Threads : ScheduleBegin(t)
  \/ \E t \in Threads : TryPushTrue(t)
  \/ \E t \in Threads : TryPushFail(t)
  \/ \E t \in Threads : TryPushNotify(t)
  \/ \E t \in Threads : PushLock(t)
  \/ \E t \in Threads : PushBody(t)
  \/ \E t \in Threads : PushNotify(t)

WrapSpec == WrapInit /\ [][WrapNext]_vars

(* ---- the destructor run on a pool thread ---- *)

\* a task running on worker w destroys the pool: ~basic_thread_pool() is
\* entered on thread w, inside move(f)() of run(w)
DtorBeginOnWorker(w) ==
  /\ Alive
  /\ opc = "live"
  /\ spc[Owner] = "none"
  /\ wpc[w] = "running"
  /\ spc[w] = "none"
  /\ opc' = "done_lock"
  /\ oi' = 0
  /\ dtor_thread' = w
  /\ UNCHANGED <<outsideVars,
                 ctorVars, queue, mutex, ready, done, next_thread, threads,
                 workerVars, schedVars, payloadVars, logVars>>

\* t.join() on the handle of the calling thread. run(oi) cannot return
\* before the destructor it is executing does, so a join that waits never
\* returns (no step). std::thread::join does not wait: it reports
\* resource_deadlock_would_occur by throwing std::system_error, and the
\* exception leaving the (noexcept) destructor calls std::terminate.
JoinSelf ==
  /\ opc = "join"
  /\ oi = dtor_thread
  /\ opc' = "terminated"
  /\ UNCHANGED <<outsideVars,
                 ctorVars, queue, mutex, ready, done, next_thread, threads,
                 oi, dtor_thread, workerVars, schedVars, payloadVars, logVars>>

SelfDtorNext ==
  \/ Next
  \/ \E w \in Workers : DtorBeginOnWorker(w)
  \/ JoinSelf

SelfDtorSpec == Init /\ [][SelfDtorNext]_vars

(* ---- main-thread schedulers ---- *)

MainPayloads == 1..MaxMainPayloads

\* the range of size_t, scaled down; the comparison in post() comes out the
\* same for every width
SizeModulus == 65536

\* the conversion of a signed value to size_t
ToSizeT(n) == n % SizeModulus

\* write(_write_fd, &byte, 1) on the non-blocking pipe holding n unread
\* bytes: 1 when the byte was written, -1 (EAGAIN) when the pipe is full
write_results(n) == IF n < PipeCapacity THEN {1} ELSE {-1}

\* post(): if(write(...) < sizeof(byte)) throw; write() returns ssize_t,
\* sizeof is size_t, so the comparison is made in size_t
post_throws(result) == ToSizeT(result) < 1

\* a clear() that is left out
clear_omitted(qu) == qu

\* main_thread_task_queue::clear(): swap(_queue, temp) with an empty temp
clear(qu) == << >>

\* the payloads a queue holds
Content(qu) == {qu[k] : k \in 1..Len(qu)}

\* a main-thread scheduler is constructed (android_main_looper creates its
\* pipe and registers looper_callback; libdispatch_main has no state); the
\* platform is the same for every scheduler of the process
MainConstruct(k) ==
  /\ mlife \in {"none", "destroyed"}
  /\ mkind \in {"none", k}
  /\ mkind' = k
  /\ mlife' = "live"
  /\ UNCHANGED <<poolVars, utilVars, mcleared, mqueue, msignals, mspc, mcpc, mcf, mborn, mpushLog,
                 minvoked, mdropped, msent, mreturned, mattempts, mtrypops>>

\* schedule(): main_thread_task_queue::get().push({...}): lock,
\* _queue.emplace_back(move(f)), unlock
MainPush ==
  /\ mlife = "live"
  /\ mspc = "none"
  /\ mborn < MaxMainPayloads
  /\ mborn' = mborn + 1
  /\ mqueue' = emplace_back(mqueue, mborn + 1)
  /\ mpushLog' = Append(mpushLog, mborn + 1)
  /\ mspc' = "signal"
  /\ UNCHANGED <<poolVars, utilVars, mcleared, mkind, mlife, msignals, mcpc, mcf, minvoked,
                 mdropped, msent, mreturned, mattempts, mtrypops>>

\* android_main_looper::schedule(): post(), then return (or the throw)
AndroidPost ==
  /\ mkind = "android"
  /\ mspc = "signal"
  /\ \E result \in write_results(msignals) :
       /\ msignals' = IF result = 1 THEN msignals + 1 ELSE msignals
       /\ msent' = IF result = 1 THEN msent + 1 ELSE msent
       /\ mreturned' = IF post_throws(result) THEN mreturned
                       ELSE mreturned + 1
  /\ mspc' = "none"
  /\ UNCHANGED <<poolVars, utilVars, mcleared, mkind, mlife, mqueue, mcpc, mcf, mborn, mpushLog,
                 minvoked, mdropped, mattempts, mtrypops>>

\* libdispatch_main: dispatch_async_f(dispatch_get_main_queue(), ...), return
DispatchAsync ==
  /\ mkind = "libdispatch"
  /\ mspc = "signal"
  /\ msignals' = msignals + 1
  /\ msent' = msent + 1
  /\ mreturned' = mreturned + 1
  /\ mspc' = "none"
  /\ UNCHANGED <<poolVars, utilVars, mcleared, mkind, mlife, mqueue, mcpc, mcf, mborn, mpushLog,
                 minvoked, mdropped, mattempts, mtrypops>>

\* a looper_callback that reads in a loop until the pipe is empty and then
\* pops one payload
LooperCallbackReadAll ==
  /\ mkind = "android"
  /\ mlife = "live"
  /\ mcpc = "idle"
  /\ msignals > 0
  /\ msignals' = 0
  /\ mattempts' = mattempts + 1
  /\ mcpc' = "try_pop"
  /\ UNCHANGED <<poolVars, utilVars, mcleared, mkind, mlife, mqueue, mspc,
                 mcf, mborn, mpushLog, minvoked, mdropped, msent, mreturned,
                 mtrypops>>

\* the looper finds the registered read end readable and calls
\* looper_callback: read(fd, &byte, 1) > 0 takes one byte
LooperCallbackRead ==
  /\ mkind = "android"
  /\ mlife = "live"
  /\ mcpc = "idle"
  /\ msignals > 0
  /\ msignals' = msignals - 1
  /\ mattempts' = mattempts + 1
  /\ mcpc' = "try_pop"
  /\ UNCHANGED <<poolVars, utilVars, mcleared, mkind, mlife, mqueue, mspc, mcf, mborn, mpushLog,
                 minvoked, mdropped, msent, mreturned, mtrypops>>

\* the main dispatch queue runs one of the blocks handed to it; it does so
\* whether or not the scheduler still exists
DispatchBlockRun ==
  /\ mkind = "libdispatch"
  /\ mcpc = "idle"
  /\ msignals > 0
  /\ msignals' = msignals - 1
  /\ mattempts' = mattempts + 1
  /\ mcpc' = "try_pop"
  /\ UNCHANGED <<poolVars, utilVars, mcleared, mkind, mlife, mqueue, mspc, mcf, mborn, mpushLog,
                 minvoked, mdropped, msent, mreturned, mtrypops>>

\* main_thread_task_queue::try_pop on an empty queue: return false; the
\* trampoline returns
MainTryPopFalse ==
  /\ mcpc = "try_pop"
  /\ mqueue = << >>
  /\ mtrypops' = mtrypops + 1
  /\ mcpc' = "idle"
  /\ UNCHANGED <<poolVars, utilVars, mcleared, mkind, mlife, mqueue, msignals, mspc, mcf, mborn,
                 mpushLog, minvoked, mdropped, msent, mreturned, mattempts>>

\* main_thread_task_queue::try_pop: f = move(_queue.front());
\* _queue.pop_front(); return true
MainTryPopTrue ==
  /\ mcpc = "try_pop"
  /\ mqueue # << >>
  /\ mcf' = front(mqueue)
  /\ mqueue' = pop_front(mqueue)
  /\ mtrypops' = mtrypops + 1
  /\ mcpc' = "invoke"
  /\ UNCHANGED <<poolVars, utilVars, mcleared, mkind, mlife, msignals, mspc, mborn, mpushLog,
                 minvoked, mdropped, msent, mreturned, mattempts>>

\* the trampoline invokes the popped payload on the main thread
MainInvoke ==
  /\ mcpc = "invoke"
  /\ minvoked' = Append(minvoked, mcf)
  /\ mcpc' = "running"
  /\ UNCHANGED <<poolVars, utilVars, mcleared, mkind, mlife, mqueue, msignals, mspc, mcf, mborn,
                 mpushLog, mdropped, msent, mreturned, mattempts, mtrypops>>

\* the task returns, f is destroyed, the trampoline returns
MainTaskReturn ==
  /\ mcpc = "running"
  /\ mcf' = Empty
  /\ mcpc' = "idle"
  /\ UNCHANGED <<poolVars, utilVars, mcleared, mkind, mlife, mqueue, msignals, mspc, mborn,
                 mpushLog, minvoked, mdropped, msent, mreturned, mattempts,
                 mtrypops>>

\* ~android_main_looper(): ALooper_removeFd, close(_read_fd),
\* close(_write_fd): the callback is unregistered and the unread bytes are
\* gone with the pipe
AndroidUnregister ==
  /\ mkind = "android"
  /\ mlife = "live"
  /\ mspc = "none"
  /\ msignals' = 0
  /\ mlife' = "unregistered"
  /\ UNCHANGED <<poolVars, utilVars, mcleared, mkind, mqueue, mspc, mcpc, mcf, mborn, mpushLog,
                 minvoked, mdropped, msent, mreturned, mattempts, mtrypops>>

\* the destructors' main_thread_task_queue::get().clear(): the last
\* statement of ~android_main_looper(), the only one of ~libdispatch_main()
MainClear ==
  /\ \/ mkind = "android" /\ mlife = "unregistered"
     \/ mkind = "libdispatch" /\ mlife = "live" /\ mspc = "none"
  /\ mdropped' = mdropped \cup (Content(mqueue) \ Content(clear(mqueue)))
  /\ mqueue' = clear(mqueue)
  /\ mlife' = "destroyed"
  /\ mcleared' = TRUE
  /\ UNCHANGED <<poolVars, utilVars, mkind, msignals, mspc, mcpc, mcf, mborn, mpushLog,
                 minvoked, msent, mreturned, mattempts, mtrypops>>

MainNext ==
  \/ \E k \in {"android", "libdispatch"} : MainConstruct(k)
  \/ MainPush
  \/ AndroidPost
  \/ DispatchAsync
  \/ LooperCallbackRead
  \/ DispatchBlockRun
  \/ MainTryPopFalse
  \/ MainTryPopTrue
  \/ MainInvoke
  \/ MainTaskReturn
  \/ AndroidUnregister
  \/ MainClear

\* the thread pool is left aside: one constructor call, never started
MainInit == Init /\ ctor = "basic_thread_pool" /\ requested = 1

MainSpec == MainInit /\ [][MainNext]_vars

(* ---- several android_main_looper objects on one queue ---- *)

\* what the android_main_looper objects leave alone
looperFrame == <<poolVars, cb, itemVars, javaVars, queueVars, mkind, mlife,
                 msignals, mspc, msent, mreturned>>

\* android_main_looper(): the pipe is created and its read end is registered
\* with the looper of the thread
LooperConstruct(s) ==
  /\ loopers[s].life = "none"
  /\ loopers' = [loopers EXCEPT ![s].life = "live"]
  /\ UNCHANGED <<looperFrame, mvia, mqueue, mcpc, mcf, mborn, mpushLog,
                 minvoked, mdropped, mattempts, mtrypops, mcleared>>

\* schedule() of scheduler s: main_thread_task_queue::get().push({...})
LooperPush(s) ==
  /\ loopers[s].life = "live"
  /\ loopers[s].spc = "none"
  /\ mborn < MaxMainPayloads
  /\ mborn' = mborn + 1
  /\ mvia' = [mvia EXCEPT ![mborn + 1] = s]
  /\ mqueue' = emplace_back(mqueue, mborn + 1)
  /\ mpushLog' = Append(mpushLog, mborn + 1)
  /\ loopers' = [loopers EXCEPT ![s].spc = "signal"]
  /\ UNCHANGED <<looperFrame, mcpc, mcf, minvoked, mdropped, mattempts,
                 mtrypops, mcleared>>

\* schedule() of scheduler s: post() writes one byte to the pipe of s
LooperPost(s) ==
  /\ loopers[s].spc = "signal"
  /\ \E result \in write_results(loopers[s].pipe) :
       loopers' = [loopers EXCEPT
                     ![s].pipe = IF result = 1 THEN @ + 1 ELSE @,
                     ![s].spc = "none"]
  /\ UNCHANGED <<looperFrame, mvia, mqueue, mcpc, mcf, mborn, mpushLog,
                 minvoked, mdropped, mattempts, mtrypops, mcleared>>

\* the looper finds the read end of scheduler s readable and calls
\* looper_callback, which reads one byte; try_pop and the invocation are the
\* steps of the trampoline
LooperCallback(s) ==
  /\ loopers[s].life = "live"
  /\ loopers[s].pipe > 0
  /\ mcpc = "idle"
  /\ loopers' = [loopers EXCEPT ![s].pipe = @ - 1]
  /\ mattempts' = mattempts + 1
  /\ mcpc' = "try_pop"
  /\ UNCHANGED <<looperFrame, mvia, mqueue, mcf, mborn, mpushLog, minvoked,
                 mdropped, mtrypops, mcleared>>

\* ~android_main_looper() of scheduler s: ALooper_removeFd and the two
\* close() calls
LooperUnregister(s) ==
  /\ loopers[s].life = "live"
  /\ loopers[s].spc = "none"
  /\ loopers' = [loopers EXCEPT ![s].life = "unregistered", ![s].pipe = 0]
  /\ UNCHANGED <<looperFrame, mvia, mqueue, mcpc, mcf, mborn, mpushLog,
                 minvoked, mdropped, mattempts, mtrypops, mcleared>>

\* ~android_main_looper() of scheduler s:
\* main_thread_task_queue::get().clear()
LooperClear(s) ==
  /\ loopers[s].life = "unregistered"
  /\ mdropped' = mdropped \cup (Content(mqueue) \ Content(clear(mqueue)))
  /\ mqueue' = clear(mqueue)
  /\ mcleared' = TRUE
  /\ loopers' = [loopers EXCEPT ![s].life = "destroyed"]
  /\ UNCHANGED <<looperFrame, mvia, mcpc, mcf, mborn, mpushLog, minvoked,
                 mattempts, mtrypops>>

LoopersNext ==
  \/ \E s \in Loopers : LooperConstruct(s)
  \/ \E s \in Loopers : LooperPush(s)
  \/ \E s \in Loopers : LooperPost(s)
  \/ \E s \in Loopers : LooperCallback(s)
  \/ MainTryPopFalse
  \/ MainTryPopTrue
  \/ MainInvoke
  \/ MainTaskReturn
  \/ \E s \in Loopers : LooperUnregister(s)
  \/ \E s \in Loopers : LooperClear(s)

LoopersSpec == MainInit /\ [][LoopersNext]_vars

(* ---- main_thread_task_queue, one mutex operation at a time ---- *)

\* what the queue operations leave alone
queueFrame == <<poolVars, cb, itemVars, javaVars, looperVars, mkind, mlife,
                msignals, mspc, mcpc, mcf, msent, mreturned, mattempts,
                mtrypops, mcleared>>

\* the operations of main_thread_task_queue
QueueOps == {"push", "try_pop", "clear"}

\* where a thread is after an operation has returned: in the payload
\* destructor that called it, or in the code that uses the queue
AfterCall(tmp) == IF tmp = << >> THEN "idle" ELSE "destroy"

\* thread t, or the destructor of the payload it is destroying, calls op; a
\* push has built its payload f
QEnter(t, op) ==
  /\ qop' = [qop EXCEPT ![t] = op]
  /\ qpc' = [qpc EXCEPT ![t] = "lock"]
  /\ IF op = "push"
       THEN /\ mborn < MaxMainPayloads
            /\ mborn' = mborn + 1
            /\ qf' = [qf EXCEPT ![t] = mborn + 1]
       ELSE UNCHANGED <<mborn, qf>>

\* a call of push, try_pop or clear from the code that uses the queue
QCall(t, op) ==
  /\ qpc[t] = "idle"
  /\ QEnter(t, op)
  /\ UNCHANGED <<queueFrame, mqueue, mpushLog, minvoked, mdropped, qmutex,
                 qtemp, qreentered>>

\* lock_t lock{_mutex}: blocks until the mutex is free
QLock(t) ==
  /\ qpc[t] = "lock"
  /\ qmutex = NoThread
  /\ qmutex' = t
  /\ qpc' = [qpc EXCEPT ![t] = "cs"]
  /\ UNCHANGED <<queueFrame, mqueue, mborn, mpushLog, minvoked, mdropped, qop,
                 qf, qtemp, qreentered>>

\* push: _queue.emplace_back(move(f)); the lock is released on return
QPush(t) ==
  /\ qpc[t] = "cs"
  /\ qop[t] = "push"
  /\ mqueue' = emplace_back(mqueue, qf[t])
  /\ mpushLog' = Append(mpushLog, qf[t])
  /\ qf' = [qf EXCEPT ![t] = Empty]
  /\ qmutex' = NoThread
  /\ qop' = [qop EXCEPT ![t] = "none"]
  /\ qpc' = [qpc EXCEPT ![t] = AfterCall(qtemp[t])]
  /\ UNCHANGED <<queueFrame, mborn, minvoked, mdropped, qtemp, qreentered>>

\* a try_pop that waits for a payload: it releases the mutex and tries again
QTryPopWaits(t) ==
  /\ qpc[t] = "cs"
  /\ qop[t] = "try_pop"
  /\ mqueue = << >>
  /\ qmutex' = NoThread
  /\ qpc' = [qpc EXCEPT ![t] = "lock"]
  /\ UNCHANGED <<queueFrame, mqueue, mborn, mpushLog, minvoked, mdropped, qop,
                 qf, qtemp, qreentered>>

\* try_pop: if(_queue.empty()) return false; the lock is released on return
QTryPopFalse(t) ==
  /\ qpc[t] = "cs"
  /\ qop[t] = "try_pop"
  /\ mqueue = << >>
  /\ qmutex' = NoThread
  /\ qop' = [qop EXCEPT ![t] = "none"]
  /\ qpc' = [qpc EXCEPT ![t] = AfterCall(qtemp[t])]
  /\ UNCHANGED <<queueFrame, mqueue, mborn, mpushLog, minvoked, mdropped, qf,
                 qtemp, qreentered>>

\* try_pop: f = move(_queue.front()); _queue.pop_front(); return true; the
\* lock is released on return. The caller invokes f; a payload destructor
\* that called try_pop lets f go out of scope
QTryPopTrue(t) ==
  /\ qpc[t] = "cs"
  /\ qop[t] = "try_pop"
  /\ mqueue # << >>
  /\ mqueue' = pop_front(mqueue)
  /\ qmutex' = NoThread
  /\ qop' = [qop EXCEPT ![t] = "none"]
  /\ IF qtemp[t] = << >>
       THEN /\ qf' = [qf EXCEPT ![t] = front(mqueue)]
            /\ qpc' = [qpc EXCEPT ![t] = "invoke"]
            /\ UNCHANGED qtemp
       ELSE /\ qtemp' = [qtemp EXCEPT ![t] = <<front(mqueue)>> \o @]
            /\ qpc' = [qpc EXCEPT ![t] = "destroy"]
            /\ UNCHANGED qf
  /\ UNCHANGED <<queueFrame, mborn, mpushLog, minvoked, mdropped, qreentered>>

\* the caller of try_pop invokes the payload it got; f is destroyed after it
QInvoke(t) ==
  /\ qpc[t] = "invoke"
  /\ minvoked' = Append(minvoked, qf[t])
  /\ qf' = [qf EXCEPT ![t] = Empty]
  /\ qpc' = [qpc EXCEPT ![t] = "idle"]
  /\ UNCHANGED <<queueFrame, mqueue, mborn, mpushLog, mdropped, qmutex, qop,
                 qtemp, qreentered>>

\* clear: swap(_queue, temp); temp was empty (declared first, it is
\* destroyed last), and a clear() called by a payload destructor has a temp
\* of its own that is destroyed before that destructor goes on
QClearSwap(t) ==
  /\ qpc[t] = "cs"
  /\ qop[t] = "clear"
  /\ qtemp' = [qtemp EXCEPT ![t] = mqueue \o @]
  /\ mqueue' = clear(mqueue)
  /\ qpc' = [qpc EXCEPT ![t] = "unlock"]
  /\ UNCHANGED <<queueFrame, mborn, mpushLog, minvoked, mdropped, qmutex, qop,
                 qf, qreentered>>

\* a clear() whose temp is declared after the lock: temp is destroyed first,
\* with the mutex still held
QClearDestroysLocked(t) ==
  /\ qpc[t] = "unlock"
  /\ qop' = [qop EXCEPT ![t] = "none"]
  /\ qpc' = [qpc EXCEPT ![t] = "destroy"]
  /\ UNCHANGED <<queueFrame, mqueue, mborn, mpushLog, minvoked, mdropped,
                 qmutex, qf, qtemp, qreentered>>

\* clear: the closing brace destroys lock (the mutex is released), then temp
QClearUnlock(t) ==
  /\ qpc[t] = "unlock"
  /\ qmutex' = NoThread
  /\ qop' = [qop EXCEPT ![t] = "none"]
  /\ qpc' = [qpc EXCEPT ![t] = "destroy"]
  /\ UNCHANGED <<queueFrame, mqueue, mborn, mpushLog, minvoked, mdropped, qf,
                 qtemp, qreentered>>

\* the destructor of the payload that is being destroyed calls push, try_pop
\* or clear of the main-thread queue (once)
QReenter(t, op) ==
  /\ qpc[t] = "destroy"
  /\ qtemp[t] # << >>
  /\ qreentered[Head(qtemp[t])] = "none"
  /\ qreentered' = [qreentered EXCEPT ![Head(qtemp[t])] = op]
  /\ QEnter(t, op)
  /\ UNCHANGED <<queueFrame, mqueue, mpushLog, minvoked, mdropped, qmutex,
                 qtemp>>

\* the destructor of the payload that is being destroyed returns
QDestroyed(t) ==
  /\ qpc[t] = "destroy"
  /\ qtemp[t] # << >>
  /\ mdropped' = mdropped \cup {Head(qtemp[t])}
  /\ qtemp' = [qtemp EXCEPT ![t] = Tail(@)]
  /\ UNCHANGED <<queueFrame, mqueue, mborn, mpushLog, minvoked, qmutex, qpc,
                 qop, qf, qreentered>>

\* temp is destroyed; clear() returns to the code that called it
QClearReturn(t) ==
  /\ qpc[t] = "destroy"
  /\ qtemp[t] = << >>
  /\ qpc' = [qpc EXCEPT ![t] = "idle"]
  /\ UNCHANGED <<queueFrame, mqueue, mborn, mpushLog, minvoked, mdropped,
                 qmutex, qop, qf, qtemp, qreentered>>

QueueNext ==
  \E t \in QueueThreads :
    \/ \E op \in QueueOps : QCall(t, op)
    \/ QLock(t)
    \/ QPush(t)
    \/ QTryPopFalse(t)
    \/ QTryPopTrue(t)
    \/ QInvoke(t)
    \/ QClearSwap(t)
    \/ QClearUnlock(t)
    \/ \E op \in QueueOps : QReenter(t, op)
    \/ QDestroyed(t)
    \/ QClearReturn(t)

QueueSpec == MainInit /\ [][QueueNext]_vars

(* ---- package_task_as_c_callback ---- *)

\* an elision test that always says no
never_elide(small, trivial) == FALSE

\* can_elide_alloc: sizeof(function_t) <= sizeof(void*) &&
\* std::is_trivially_copyable<function_t>()
can_elide_alloc(small, trivial) == small /\ trivial

\* the package_task_as_c_callback_impl overload the call selects. With
\* can_elide_alloc true the fourth argument is std::true_type, which the
\* elision overload takes as it is and the std::reference_wrapper overload
\* only through dont_care_t's converting constructor, so a reference_wrapper
\* (always pointer-sized and trivially copyable) is packaged by the elision
\* overload; with can_elide_alloc false the allocating overload matches best.
package_strategy(is_ref, small, trivial) ==
  IF can_elide_alloc(small, trivial) THEN "inline" ELSE "allocate"

\* the values of one byte of an object representation (scaled down)
Byte == {0, 1}

\* the object representations of n bytes
Bytes(n) == [1..n -> Byte]

\* memcpy(converter, &f, sizeof(f)); *reinterpret_cast<void**>(converter):
\* the first sizeof(f) bytes of the word are f's, the others are what the
\* uninitialised array held
pack(value, junk) ==
  [i \in 1..PtrSize |-> IF i <= Len(value) THEN value[i] ELSE junk[i]]

\* an unpacking that reads the callable from the end of the word
unpack_from_end(word, size) == [i \in 1..size |-> word[PtrSize - size + i]]

\* memcpy(converter, &data, sizeof(data));
\* reinterpret_cast<function_t*>(converter): the first sizeof(function_t)
\* bytes of the word
unpack(word, size) == [i \in 1..size |-> word[i]]

\* what package_task_as_c_callback(alloc, f) returns and leaves behind;
\* value is f's object representation, junk the content of the local array
package_task_as_c_callback(is_ref, small, trivial, throws, value, junk) ==
  IF package_strategy(is_ref, small, trivial) = "allocate"
  THEN [NotPackaged EXCEPT !.handle = "alive", !.strategy = "allocate",
                           !.is_ref = is_ref, !.throws = throws,
                           !.small = small, !.trivial = trivial,
                           !.owner = "owning", !.node = "live",
                           !.allocs = 1, !.live = 1]
  ELSE [NotPackaged EXCEPT !.handle = "alive", !.strategy = "inline",
                           !.is_ref = is_ref, !.throws = throws,
                           !.small = small, !.trivial = trivial,
                           !.value = value, !.word = pack(value, junk),
                           !.owner = "value"]

\* _data.get(): the pointer the unique_ptr holds, or data_t::ptr
data_get(c) ==
  CASE c.owner = "owning" -> "node"
    [] c.owner = "null" -> "null"
    [] OTHER -> "value"

\* a release() that hands out no pointer
release_returns_null(c) == "null"

\* the value _data.release() returns
data_release(c) ==
  CASE c.owner = "owning" -> "node"
    [] c.owner = "null" -> "null"
    [] OTHER -> "value"

\* a release() that leaves the unique_ptr owning
owner_kept(c) == c.owner

\* _data after _data.release(): a unique_ptr gives the node up, data_t is
\* unchanged
owner_after_release(c) == IF c.owner = "owning" THEN "null" ELSE c.owner

\* c_callback::get()
c_callback_get(c) == [c EXCEPT !.got = data_get(c)]

\* c_callback::release()
c_callback_release(c) ==
  [c EXCEPT !.rel = data_release(c),
            !.owner = owner_after_release(c),
            !.released = TRUE]

\* the allocator deleter applied to the node: destroy, then deallocate
free_node(c, by) ==
  [c EXCEPT !.node = "freed",
            !.live = @ - 1,
            !.deallocs = @ + 1,
            !.dtor_frees = IF by = "dtor" THEN @ + 1 ELSE @,
            !.call_frees = IF by = "call" THEN @ + 1 ELSE @]

\* a guard that is skipped when the callable throws
guard_only_on_success(threw) == ~threw

\* fn_ptr of the allocating overload: deleter f{...} is a local object; its
\* destructor runs when the callable returns and when it throws
guard_fires(threw) == TRUE

\* fn_ptr(data) in state c: the states it can leave. With a null pointer
\* or the pointer to a node that was freed the behaviour is undefined: the
\* call crashes, or runs on the dead node and frees it again.
fn_ptr(c, data) ==
  LET ran == [c EXCEPT !.calls = @ + 1,
                       !.invoked = @ + 1,
                       !.exc = IF c.throws THEN @ + 1 ELSE @]
  IN  IF c.strategy = "inline"
      THEN {[ran EXCEPT !.seen = unpack(c.word, Len(c.value))]}
      ELSE IF data = "node" /\ c.node = "live"
      THEN {IF guard_fires(c.throws) THEN free_node(ran, "call") ELSE ran}
      ELSE {[c EXCEPT !.calls = @ + 1, !.ub = TRUE]}
           \cup (IF data = "node"
                 THEN {[free_node(ran, "call") EXCEPT !.ub = TRUE]}
                 ELSE {})

\* an operator() that passes _data.get() and keeps ownership
c_callback_call_keeping(c) ==
  fn_ptr([c EXCEPT !.direct = @ + 1], data_get(c))

\* c_callback::operator()(): _f(_data.release())
c_callback_call(c) ==
  fn_ptr([c EXCEPT !.owner = owner_after_release(c),
                   !.released = TRUE,
                   !.direct = @ + 1],
         data_release(c))

\* the handle is destroyed: a unique_ptr that still owns applies its
\* deleter (undefined when fn_ptr has already freed the node)
destroy_handle(c) ==
  LET d == [c EXCEPT !.handle = "destroyed"]
  IN  IF c.owner # "owning" THEN {d}
      ELSE IF c.node = "live" THEN {free_node(d, "dtor")}
      ELSE {[d EXCEPT !.ub = TRUE],
            [free_node(d, "dtor") EXCEPT !.ub = TRUE]}

\* the object representations a callable can have: a small one has 1 to
\* PtrSize bytes, a std::reference_wrapper holds one pointer; the
\* representation of a large callable is not followed
Representations(is_ref, small) ==
  IF ~small THEN {<< >>}
  ELSE UNION {Bytes(n) : n \in (IF is_ref THEN {PtrSize} ELSE 1..PtrSize)}

\* package_task_as_c_callback(alloc, f) for a callable f: a
\* std::reference_wrapper is pointer-sized and trivially copyable
CbPackage ==
  /\ cb.handle = "none"
  /\ \E is_ref, small, trivial, throws \in BOOLEAN :
       /\ is_ref => small /\ trivial
       /\ \E value \in Representations(is_ref, small), junk \in Bytes(PtrSize) :
            cb' = package_task_as_c_callback(is_ref, small, trivial, throws,
                                             value, junk)
  /\ UNCHANGED callbackFrame

CbGet ==
  /\ cb.handle = "alive" /\ ~cb.ub
  /\ cb' = c_callback_get(cb)
  /\ UNCHANGED callbackFrame

CbRelease ==
  /\ cb.handle = "alive" /\ ~cb.ub
  /\ cb.rel = "none"
  /\ cb' = c_callback_release(cb)
  /\ UNCHANGED callbackFrame

\* the handle is called as a function object
CbDirectCall ==
  /\ cb.handle = "alive" /\ ~cb.ub
  /\ cb.direct = 0
  /\ cb' \in c_callback_call(cb)
  /\ UNCHANGED callbackFrame

\* the C API calls callback(data) with a pair that get() or release()
\* returned, at most once, before or after the handle is destroyed
CbRawCall ==
  /\ cb.handle # "none" /\ ~cb.ub
  /\ cb.raw = 0
  /\ \E data \in {cb.got, cb.rel} \ {"none"} :
       cb' \in fn_ptr([cb EXCEPT !.raw = 1], data)
  /\ UNCHANGED callbackFrame

CbDestroy ==
  /\ cb.handle = "alive" /\ ~cb.ub
  /\ cb' \in destroy_handle(cb)
  /\ UNCHANGED callbackFrame

CallbackNext ==
  \/ CbPackage
  \/ CbGet
  \/ CbRelease
  \/ CbDirectCall
  \/ CbRawCall
  \/ CbDestroy

CallbackSpec == MainInit /\ [][CallbackNext]_vars

(* ---- detail::work_item ---- *)

\* work_item::operator bool: _target != nullptr
operator_bool(it, i) == it.target # nullptr

\* work_item::is_embedded: static_cast<void*>(_target) == &_buffer
is_embedded(it, i) == it.target = BufferAddr(i)

\* an embedding test that looks at the size only
can_embed_by_size(fits, nothrow_move) == fits

\* emplace: sizeof(embedded) <= sizeof(_buffer) &&
\* std::is_nothrow_move_constructible<decayed>()
can_embed(fits, nothrow_move) == fits /\ nothrow_move

\* the callable object _target points to (NoObject for a dangling pointer)
Stored(its, nds, i) ==
  IF is_embedded(its[i], i) THEN its[i].buffer
  ELSE IF its[i].target \in Nodes THEN nds[its[i].target]
  ELSE NoObject

\* the three states of a work_item
IsEmpty(i) == items[i].target = nullptr
IsInline(i) == items[i].target = BufferAddr(i) /\ items[i].buffer # NoObject
IsHeap(i) == items[i].target \in Nodes /\ nodes[items[i].target] # NoObject

\* the callable the next work_item is constructed from
NextCallable == CHOOSE v \in Callables :
                  ~origin[v].made /\ \A u \in 1..(v - 1) : origin[u].made

\* the node std::allocator_traits::allocate returns
FreeNode == CHOOSE n \in Nodes :
              nodes[n] = NoObject /\ \A m \in 1..(n - 1) : nodes[m] # NoObject

\* work_item::work_item()
ItemDefault(i) ==
  /\ ~item_ub
  /\ items[i].life = "unborn"
  /\ items' = [items EXCEPT ![i] = [life |-> "alive", target |-> nullptr,
                                    buffer |-> NoObject]]
  /\ UNCHANGED <<nodes, origin, effects, item_ub, itemFrame>>

\* work_item(std::allocator_arg, alloc, f): emplace and emplace_impl
ItemFromCallable(i) ==
  /\ ~item_ub
  /\ items[i].life = "unborn"
  /\ \E v \in Callables : ~origin[v].made
  /\ \E fits, nothrow_move, throws \in BOOLEAN :
       LET v == NextCallable
           made == [NoOrigin EXCEPT !.made = TRUE, !.fits = fits,
                                    !.nothrow_move = nothrow_move,
                                    !.throws = throws, !.live = 1]
       IN  IF can_embed(fits, nothrow_move)
           THEN /\ items' = [items EXCEPT ![i] =
                               [life |-> "alive", target |-> BufferAddr(i),
                                buffer |-> v]]
                /\ origin' = [origin EXCEPT ![v] =
                                [made EXCEPT !.kind = "inline"]]
                /\ UNCHANGED nodes
           ELSE /\ items' = [items EXCEPT ![i] =
                               [life |-> "alive", target |-> FreeNode,
                                buffer |-> NoObject]]
                /\ nodes' = [nodes EXCEPT ![FreeNode] = v]
                /\ origin' = [origin EXCEPT ![v] =
                                [made EXCEPT !.kind = "heap", !.allocs = 1]]
  /\ UNCHANGED <<effects, item_ub, itemFrame>>

\* an assignment that leaves other._target as it was
target_kept(it) == it.target

\* operator=: other._target = nullptr
target_after_move(it) == nullptr

\* a move_and_destroy that leaves the source object alive
move_without_destroy(live) == live + 1

\* fun_without_alloc::move_and_destroy: the live instances after the
\* placement new of fun_without_alloc{move(f)} and the destroy() of the source
move_and_destroy(live) == (live + 1) - 1

\* work_item::operator=(work_item&& other) with this = d, other = s, d
\* being alive or under construction: the items, and the live instances of
\* the callable, that it leaves
move_assign(its, nds, org, d, s) ==
  IF is_embedded(its[s], s)
  THEN \* move_and_destroy(as_base(&_buffer)); _target = as_base(&_buffer)
       LET v == its[s].buffer
       IN  [its |-> [its EXCEPT ![d] = [life |-> "alive",
                                       target |-> BufferAddr(d),
                                       buffer |-> v],
                                ![s] = [life |-> "alive",
                                       target |-> target_after_move(its[s]),
                                       buffer |-> NoObject]],
            org |-> [org EXCEPT ![v].live = move_and_destroy(@),
                                ![v].moves = @ + 1]]
  ELSE [its |-> [its EXCEPT ![d] = [life |-> "alive",
                                    target |-> its[s].target,
                                    buffer |-> its[d].buffer],
                             ![s].target = target_after_move(its[s])],
        org |-> [v \in DOMAIN org |->
                  IF v = Stored(its, nds, s)
                  THEN [org[v] EXCEPT !.moves = @ + 1] ELSE org[v]]]

\* the callable work_item s holds can be moved once more
MovesLeft(s) ==
  \A v \in Callables :
    Stored(items, nodes, s) = v => origin[v].moves < MaxMoves

\* work_item(work_item&& other): _target = nullptr; *this = move(other).
\* operator= asserts that other is not empty.
ItemMoveConstruct(d, s) ==
  /\ ~item_ub
  /\ items[d].life = "unborn"
  /\ items[s].life = "alive" /\ items[s].target # nullptr
  /\ MovesLeft(s)
  /\ items' = move_assign(items, nodes, origin, d, s).its
  /\ origin' = move_assign(items, nodes, origin, d, s).org
  /\ UNCHANGED <<nodes, effects, item_ub, itemFrame>>

\* operator=(work_item&& other): it asserts that *this is empty and other
\* is not
ItemMoveAssign(d, s) ==
  /\ ~item_ub
  /\ d # s
  /\ items[d].life = "alive" /\ items[d].target = nullptr
  /\ items[s].life = "alive" /\ items[s].target # nullptr
  /\ MovesLeft(s)
  /\ items' = move_assign(items, nodes, origin, d, s).its
  /\ origin' = move_assign(items, nodes, origin, d, s).org
  /\ UNCHANGED <<nodes, effects, item_ub, itemFrame>>

\* an invocation that runs the callable twice
run_twice(org, v) ==
  [org EXCEPT ![v].runs = @ + 2,
              ![v].exc = IF org[v].throws THEN @ + 1 ELSE @]

\* fun_with_alloc::operator() and fun_without_alloc::operator(): move(f)()
run(org, v) ==
  [org EXCEPT ![v].runs = @ + 1,
              ![v].exc = IF org[v].throws THEN @ + 1 ELSE @]

\* work_item::operator()() &&: move(*_target)(); the work_item keeps its
\* target, whether the callable returns or throws
ItemInvoke(i) ==
  /\ ~item_ub
  /\ items[i].life = "alive" /\ items[i].target # nullptr
  /\ Len(effects) < MaxInvocations
  /\ LET v == Stored(items, nodes, i)
     IN  IF v = NoObject
         THEN item_ub' = TRUE /\ UNCHANGED <<origin, effects>>
         ELSE /\ origin' = run(origin, v)
              /\ effects' = effects \o
                   [k \in 1..(origin'[v].runs - origin[v].runs) |-> v]
              /\ UNCHANGED item_ub
  /\ UNCHANGED <<items, nodes, itemFrame>>

\* operator() of an empty work_item dereferences the null _target
ItemInvokeEmpty(i) ==
  /\ ~item_ub
  /\ items[i].life = "alive" /\ items[i].target = nullptr
  /\ item_ub' = TRUE
  /\ UNCHANGED <<items, nodes, origin, effects, itemFrame>>

\* a destructor that calls destroy() on a heap node too
destroy_only(org, v) == [org EXCEPT ![v].live = @ - 1]

\* fun_with_alloc::destroy_dealloc: destroy(), then deallocate
destroy_dealloc(org, v) ==
  [org EXCEPT ![v].live = @ - 1, ![v].deallocs = @ + 1]

\* fun_without_alloc::destroy: f.~F()
destroy(org, v) == [org EXCEPT ![v].live = @ - 1]

\* work_item::~work_item
ItemDestroy(i) ==
  /\ ~item_ub
  /\ items[i].life = "alive"
  /\ LET v == Stored(items, nodes, i)
     IN  IF items[i].target = nullptr
         THEN /\ items' = [items EXCEPT ![i].life = "destroyed"]
              /\ UNCHANGED <<nodes, origin, item_ub>>
         ELSE IF v = NoObject
         THEN /\ items' = [items EXCEPT ![i].life = "destroyed"]
              /\ item_ub' = TRUE
              /\ UNCHANGED <<nodes, origin>>
         ELSE IF is_embedded(items[i], i)
         THEN /\ items' = [items EXCEPT ![i].life = "destroyed",
                                        ![i].buffer = NoObject]
              /\ origin' = destroy(origin, v)
              /\ UNCHANGED <<nodes, item_ub>>
         ELSE /\ items' = [items EXCEPT ![i].life = "destroyed"]
              /\ nodes' = [nodes EXCEPT ![items[i].target] = NoObject]
              /\ origin' = destroy_dealloc(origin, v)
              /\ UNCHANGED item_ub
  /\ UNCHANGED <<effects, itemFrame>>

ItemNext ==
  \/ \E i \in Items : ItemDefault(i)
  \/ \E i \in Items : ItemFromCallable(i)
  \/ \E d, s \in Items : ItemMoveConstruct(d, s)
  \/ \E d, s \in Items : ItemMoveAssign(d, s)
  \/ \E i \in Items : ItemInvoke(i)
  \/ \E i \in Items : ItemInvokeEmpty(i)
  \/ \E i \in Items : ItemDestroy(i)

ItemSpec == MainInit /\ [][ItemNext]_vars

(* ---- SharedNativeThreadPoolExecutor and java_shared_native_pool ---- *)

\* a read of the flag that does not set it
get_only(flag) == [old |-> flag, new |-> flag]

\* AtomicBoolean.getAndSet(true): the old value, and the value it leaves
getAndSet(flag) == [old |-> flag, new |-> TRUE]

\* a Java handle that borrows the pool without a shared_ptr of its own
borrow_ref(count) == count

\* _toJava(jniEnv, pool._pool): the CppProxyHandle holds a copy of the
\* shared_ptr
copy_ref(count) == count + 1

\* a shared_ptr to the pool is destroyed
release_ref(count) == count - 1

\* the pool after a shared_ptr to it was destroyed and count others are
\* left: the last one runs ~basic_thread_pool, which joins the threads
pool_after_release(pool, count) == IF count = 0 THEN "stopped" ELSE pool

\* java_shared_native_pool(int num_threads): _pool(make_shared<pool_t>(...))
CppConstruct ==
  /\ cpp_owner = "none"
  /\ cpp_owner' = "alive"
  /\ use_count' = 1
  /\ shared_pool' = "running"
  /\ UNCHANGED <<jdestroyed, jpc, jold, jcalls, jgas, nativeShutdowns, jhandle,
                 jaccepted, jub, javaFrame>>

\* jni::default_scheduler::fromCpp: the Java executor is created around a
\* new CppProxyHandle
FromCpp ==
  /\ cpp_owner = "alive" /\ jhandle = "none"
  /\ jhandle' = "alive"
  /\ use_count' = copy_ref(use_count)
  /\ UNCHANGED <<jdestroyed, jpc, jold, jcalls, jgas, nativeShutdowns,
                 cpp_owner, shared_pool, jaccepted, jub, javaFrame>>

\* shutdown(), called directly or by finalize():
\* boolean destroyed = this.destroyed.getAndSet(true)
JavaShutdownBegin(t) ==
  /\ ~jub
  /\ jhandle # "none"
  /\ jpc[t] = "idle" /\ jcalls[t] < MaxShutdownCalls
  /\ jdestroyed' = getAndSet(jdestroyed).new
  /\ jold' = [jold EXCEPT ![t] = getAndSet(jdestroyed).old]
  /\ jpc' = [jpc EXCEPT ![t] = "tested"]
  /\ jcalls' = [jcalls EXCEPT ![t] = @ + 1]
  /\ jgas' = Append(jgas, t)
  /\ UNCHANGED <<nativeShutdowns, use_count, cpp_owner, jhandle, shared_pool,
                 jaccepted, jub, javaFrame>>

\* if (!destroyed) is false: shutdown() returns
JavaShutdownSkip(t) ==
  /\ ~jub
  /\ jpc[t] = "tested" /\ jold[t]
  /\ jpc' = [jpc EXCEPT ![t] = "idle"]
  /\ UNCHANGED <<jdestroyed, jold, jcalls, jgas, nativeShutdowns, use_count,
                 cpp_owner, jhandle, shared_pool, jaccepted, jub, javaFrame>>

\* if (!destroyed) nativeShutdown(this.nativeRef): delete of the
\* CppProxyHandle (a second delete of it is undefined)
NativeShutdown(t) ==
  /\ ~jub
  /\ jpc[t] = "tested" /\ ~jold[t]
  /\ jpc' = [jpc EXCEPT ![t] = "idle"]
  /\ nativeShutdowns' = Append(nativeShutdowns, t)
  /\ IF jhandle = "alive"
     THEN /\ jhandle' = "deleted"
          /\ use_count' = release_ref(use_count)
          /\ shared_pool' = pool_after_release(shared_pool, use_count')
          /\ UNCHANGED jub
     ELSE /\ jub' = TRUE
          /\ UNCHANGED <<jhandle, use_count, shared_pool>>
  /\ UNCHANGED <<jdestroyed, jold, jcalls, jgas, cpp_owner, jaccepted,
                 javaFrame>>

\* ~java_shared_native_pool: _pool is destroyed
CppDestroy ==
  /\ ~jub
  /\ cpp_owner = "alive"
  /\ cpp_owner' = "destroyed"
  /\ use_count' = release_ref(use_count)
  /\ shared_pool' = pool_after_release(shared_pool, use_count')
  /\ UNCHANGED <<jdestroyed, jpc, jold, jcalls, jgas, nativeShutdowns, jhandle,
                 jaccepted, jub, javaFrame>>

\* java_shared_native_pool::schedule: (*_pool)(alloc, f)
CppSchedule ==
  /\ ~jub
  /\ cpp_owner = "alive"
  /\ jaccepted < MaxSharedSubmissions
  /\ IF shared_pool = "running"
     THEN jaccepted' = jaccepted + 1 /\ UNCHANGED jub
     ELSE jub' = TRUE /\ UNCHANGED jaccepted
  /\ UNCHANGED <<jdestroyed, jpc, jold, jcalls, jgas, nativeShutdowns,
                 use_count, cpp_owner, jhandle, shared_pool, javaFrame>>

\* execute(Runnable): native_execute(this.nativeRef, r); the assert on
\* destroyed is off unless the JVM runs with -ea, so the call reaches a
\* deleted handle after shutdown()
JavaExecute(t) ==
  /\ ~jub
  /\ jhandle # "none"
  /\ jpc[t] = "idle"
  /\ jaccepted < MaxSharedSubmissions
  /\ IF jhandle = "alive" /\ shared_pool = "running"
     THEN jaccepted' = jaccepted + 1 /\ UNCHANGED jub
     ELSE jub' = TRUE /\ UNCHANGED jaccepted
  /\ UNCHANGED <<jdestroyed, jpc, jold, jcalls, jgas, nativeShutdowns,
                 use_count, cpp_owner, jhandle, shared_pool, javaFrame>>

JavaNext ==
  \/ CppConstruct
  \/ FromCpp
  \/ \E t \in JavaThreads : JavaShutdownBegin(t)
  \/ \E t \in JavaThreads : JavaShutdownSkip(t)
  \/ \E t \in JavaThreads : NativeShutdown(t)
  \/ CppDestroy
  \/ CppSchedule
  \/ \E t \in JavaThreads : JavaExecute(t)

JavaSpec == MainInit /\ [][JavaNext]_vars

(* ---- fair scheduling ---- *)

\* threads plus payloads explored under fairness
LiveSize == 3

\* the workers any explored pool can have
AllWorkers == 0..(Max(MaxRequested, MaxHardware) - 1)

\* the next instruction of thread t inside schedule()
ScheduleStep(t) ==
  \/ TryPushTrue(t) \/ TryPushFail(t) \/ TryPushNotify(t)
  \/ PushLock(t) \/ PushBody(t) \/ PushNotify(t)

\* the next instruction of worker w: in run(), or in the schedule() call of
\* the task it runs. A spurious wake-up is not an instruction.
WorkerStep(w) ==
  /\ w \in Workers
  /\ \/ TryPopFail(w) \/ TryPopEmpty(w) \/ TryPopTrue(w)
     \/ PopLock(w) \/ PopWait(w) \/ PopFalse(w) \/ PopTrue(w)
     \/ Invoke(w) \/ TaskReturn(w)
     \/ ScheduleStep(w)

\* the next instruction of the owner inside a call of the pool: the
\* constructor, schedule() or the destructor. Whether and when it calls
\* operator() or the destructor is its own choice.
OwnerStep ==
  \/ StartThread
  \/ ScheduleStep(Owner)
  \/ DoneLock \/ DoneSet \/ DoneNotify \/ Join \/ DestroyMembers

\* every thread that can run an instruction infinitely often does; a thread
\* blocked on a mutex gets it if it is free infinitely often
Fairness ==
  /\ \A w \in AllWorkers : SF_vars(WorkerStep(w))
  /\ SF_vars(OwnerStep)

LiveNext == Next /\ born' + num_threads <= LiveSize

LiveSpec == Init /\ [][LiveNext]_vars /\ Fairness

(* ---- properties ---- *)

\* payload p sits in one of the queues
InQueue(p) ==
  \E q \in DOMAIN queue : \E k \in 1..Len(queue[q]) : queue[q][k] = p

\* payload p was built and handed to schedule(work_t&&)
Submitted(p) == p \in 1..born /\ p \notin alloc_failed

Invoked(p) == Len(invokers[p])

\* C1: every submitted payload is consumed exactly once by the time the
\* destruction has completed: invoked once by a worker or destroyed without
\* invocation; at no time is a payload invoked twice or invoked and dropped,
\* and a payload that was never submitted is never consumed.
C1_ConsumedExactlyOnce ==
  /\ \A p \in Payloads : Invoked(p) + dropped[p] <= 1
  /\ \A p \in Payloads : ~Submitted(p) => Invoked(p) + dropped[p] = 0
  /\ opc = "destroyed" =>
       \A p \in Payloads : Submitted(p) => Invoked(p) + dropped[p] = 1

\* a pool with two workers is destroyed after one payload was invoked and
\* while another is still queued, which is dropped
C1_Witness ==
  /\ opc = "destroyed"
  /\ num_threads = 2
  /\ Invoked(1) = 1 /\ dropped[1] = 0
  /\ Invoked(2) = 0 /\ dropped[2] = 1

\* C2: under fair scheduling and with terminating tasks, a payload that sits
\* in a queue is eventually invoked by a worker, unless the pool leaves its
\* live phase (the destructor begins) first; a worker asleep in pop() beside
\* a non-empty queue is always woken (no lost wake-up).
C2_EventuallyInvoked ==
  \A p \in Payloads :
    InQueue(p) ~> (Invoked(p) = 1 \/ opc \notin {"start", "live"})

\* the race of the claim: a payload was appended to a live pool's queue whose
\* worker is blocked in wait(), and the submitter has not yet notified
C2_Witness ==
  /\ opc = "live"
  /\ \E w \in Workers :
       /\ wpc[w] = "pop_wait"
       /\ queue[w] # << >>
       /\ \E t \in Threads :
            /\ spc[t] \in {"try_push_notify", "push_notify"}
            /\ ScheduleIndex(sthread[t], si[t]) = w

\* C3: under fair scheduling, a destructor that has begun (on the owner's
\* thread, never a worker) completes: done() is called on every queue, every
\* worker leaves run() and is joined, and the members are destroyed.
C3_DestructorTerminates ==
  (opc = "done_lock") ~> (opc = "destroyed")

\* a pool of two workers was destroyed: both workers left run() and were
\* joined, after a payload had been submitted and invoked
C3_Witness ==
  /\ opc = "destroyed"
  /\ num_threads = 2
  /\ \A w \in Workers : wpc[w] = "exited" /\ ~threads[w + 1]
  /\ \A q \in Workers : done[q]
  /\ Invoked(1) = 1

\* payload p sat in a queue when done() was signalled on that queue
QueuedAtDone(p) ==
  \E q \in DOMAIN doneLog : \E k \in 1..Len(doneLog[q]) : doneLog[q][k] = p

\* C4: a payload that was still sitting in a queue when done() was signalled
\* on it is never invoked, and it has been destroyed without invocation when
\* the destruction is complete.
C4_QueuedAtDoneNotInvoked ==
  \A p \in Payloads :
    QueuedAtDone(p) =>
      /\ Invoked(p) = 0
      /\ opc = "destroyed" => dropped[p] = 1

\* the threads any explored pool can have, and the owner
AllThreads == AllWorkers \cup {Owner}

\* the mutex of queue q is free, or its holder is inside one of the three
\* critical sections (done, push, pop before wait), whose next step unlocks
HolderInCriticalSection(q) ==
  LET h == mutex[q] IN
    h # NoThread =>
      \/ h = dtor_thread /\ opc = "done_set" /\ oi = q
      \/ spc[h] = "push_cs" /\ ScheduleIndex(sthread[h], 0) = q
      \/ h \in Workers /\ h = q /\ wpc[h] = "pop_check" /\ spc[h] = "none"

\* C5: a call of schedule() always returns, on the owner's thread and on a
\* worker running a task: no queue mutex is ever held by a thread that is
\* blocked or outside a critical section, and under fair scheduling every
\* thread inside schedule() leaves it.
C5_SubmitCompletes ==
  /\ [](\A q \in DOMAIN mutex : HolderInCriticalSection(q))
  /\ \A t \in AllThreads :
       (t \in Threads /\ spc[t] # "none") ~> (t \in Threads /\ spc[t] = "none")

\* self-submission: a worker running a task is blocked in push() on a queue
\* mutex that another thread holds
C5_Witness ==
  \E w \in Workers :
    /\ wpc[w] = "running"
    /\ spc[w] = "push_lock"
    /\ mutex[ScheduleIndex(sthread[w], 0)] \notin {NoThread, w}

\* C6: each queue is FIFO: what was popped from a queue, followed by what it
\* still holds, is what was appended to it, in the order of the appends.
C6_QueueIsFifo ==
  \A q \in DOMAIN queue :
    /\ Len(popLog[q]) <= Len(pushLog[q])
    /\ SubSeq(pushLog[q], 1, Len(popLog[q])) = popLog[q]
    /\ opc # "destroyed" => popLog[q] \o queue[q] = pushLog[q]

\* in a pool of two workers two payloads went through the same queue, the
\* second appended while the first was still in it
C6_Witness ==
  /\ num_threads = 2
  /\ \E q \in DOMAIN queue :
       /\ Len(popLog[q]) = 2
       /\ Len(doneLog[q]) = 2

\* C7: a payload is only ever invoked by a worker thread of the pool, never
\* by the owner (the submitting non-worker thread), and only after it was
\* popped from a queue: schedule() never runs it synchronously.
C7_InvokedOnWorkersOnly ==
  \A p \in Payloads :
    /\ \A k \in 1..Len(invokers[p]) :
         invokers[p][k] \in Workers /\ invokers[p][k] # Owner
    /\ Invoked(p) > 0 =>
         \E q \in DOMAIN popLog : \E k \in 1..Len(popLog[q]) : popLog[q][k] = p

\* the owner's submission to a pool of two workers was appended to queue 0
\* and invoked by a worker while the owner was still outside the destructor
C7_Witness ==
  /\ opc = "live"
  /\ Submitted(1) /\ Invoked(1) = 1
  /\ invokers[1][1] \in Workers
  /\ sthread[Owner] = 0 /\ si[Owner] = 0 /\ num_threads = 2
  /\ pushLog[0] = <<1>>

\* C8: the pool has exactly max(1, n) threads and queues for the requested
\* count n, for thread_pool(n) as for basic_thread_pool(factory, n), and the
\* number never changes.
C8_ExactlyRequestedThreads ==
  /\ num_threads = Max(1, requested)
  /\ DOMAIN queue = 0..(Max(1, requested) - 1)
  /\ opc = "live" => Len(threads) = Max(1, requested)

\* C9: when the thread factory has failed during construction, the failure
\* has propagated out of the constructor (the process was not terminated)
\* and every worker started before it was signalled via done() and joined.
C9_FactoryFailureCleansUp ==
  opc \in {"ctor_threw", "terminated"} =>
    /\ opc = "ctor_threw"
    /\ \A i \in 1..Len(threads) :
         /\ done[i - 1]
         /\ wpc[i - 1] = "exited"
         /\ ~threads[i]

\* C10: a step in which building the payload fails leaves the pool
\* unchanged: no queue gains an element, the round-robin counter is not
\* advanced and no schedule() call is in progress because of it.
C10_AllocFailureLeavesPoolUnchanged ==
  [][alloc_failed' # alloc_failed =>
       /\ queue' = queue
       /\ pushLog' = pushLog
       /\ next_thread' = next_thread
       /\ spc' = spc /\ sf' = sf]_vars

\* the allocator failed for the second payload while the first was queued;
\* the counter still shows one submission
C10_Witness ==
  /\ alloc_failed = {2}
  /\ InQueue(1)
  /\ next_thread = 1

C12_TryPopFailsAfterDone ==
  [][\A w \in Workers :
       (wpc[w] = "try_pop" /\ wpc'[w] = "invoke") =>
         ~done[RunIndex(w, wi[w])]]_vars

\* C13: every schedule() call that returned normally handed exactly one
\* signal to the event loop; every delivery attempt calls try_pop exactly
\* once and invokes at most the one payload it popped.
C13_OneSignalPerSubmit ==
  /\ mspc = "none" => msent = mreturned
  /\ mtrypops <= mattempts
  /\ mcpc = "idle" => mtrypops = mattempts
  /\ Len(minvoked) <= mtrypops

\* the payload the trampoline has popped and not yet invoked
MainPopped == IF mcpc = "invoke" THEN <<mcf>> ELSE << >>

\* C14: main-thread payloads are invoked in the order in which they were
\* pushed, one per delivery attempt: as long as no clear() dropped anything,
\* the invoked payloads, then the popped one, then the queue are the pushed
\* payloads in push order, and no delivery attempt invoked more than one.
C14_MainThreadFifo ==
  /\ mdropped = {} => minvoked \o MainPopped \o mqueue = mpushLog
  /\ Len(minvoked) <= mattempts

\* three payloads were pushed and signalled, the event loop was driven
\* three times and the third delivery is invoking the third payload
C14_Witness ==
  /\ minvoked = <<1, 2, 3>>
  /\ mattempts = 3
  /\ msent = 3
  /\ mdropped = {}
  /\ mcpc = "running"

\* C15: the payloads that clear() found in the queue when a main-thread
\* scheduler was destroyed are dropped: never invoked, neither before nor
\* after, and gone from the queue. While no scheduler exists the queue is
\* empty, so a delivery attempt the event loop still makes pops nothing.
\* The queue stays usable: what is pushed later is not affected.
C15_DestructionDropsPending ==
  /\ \A p \in mdropped :
       /\ p \notin Content(minvoked)
       /\ p \notin Content(mqueue)
       /\ mcf # p
  /\ mlife = "destroyed" => mqueue = << >>
  /\ Content(mqueue) \cup Content(minvoked) \cup mdropped
       \cup (IF mcf = Empty THEN {} ELSE {mcf}) = Content(mpushLog)

\* a libdispatch_main was destroyed with payload 1 pending; the block that
\* was still in the main dispatch queue ran afterwards and popped nothing;
\* a new scheduler then pushed payload 2, which was invoked
C15_Witness ==
  /\ mkind = "libdispatch"
  /\ mdropped = {1}
  /\ mattempts = 2 /\ mtrypops = 2
  /\ minvoked = <<2>>

\* the releases of the node made so far, by whoever made them
Frees == cb.dtor_frees + cb.call_frees

\* C16 (as amended): for a handle that owns an allocated node, as long as no
\* undefined behaviour has happened the node is released at most once; a
\* handle destroyed without release() and without any call releases it in
\* its destructor; after release() or a direct call, one invocation of fn_ptr
\* releases it and the destructor releases nothing; after release() and no
\* invocation nobody has released it.
C16_ReleaseFollowsOwnership ==
  cb.strategy = "allocate" =>
    /\ ~cb.ub => Frees <= 1
    /\ (cb.handle = "destroyed" /\ ~cb.released /\ cb.calls = 0)
         => (cb.dtor_frees = 1 /\ cb.call_frees = 0)
    /\ (cb.released /\ cb.calls = 1 /\ ~cb.ub)
         => (cb.call_frees = 1 /\ cb.dtor_frees = 0)
    /\ (cb.released /\ cb.calls = 0) => Frees = 0

\* release(), one raw call of fn_ptr with the released pair, destruction:
\* the call released the node, the destructor did not
C16_Witness ==
  /\ cb.strategy = "allocate"
  /\ cb.handle = "destroyed"
  /\ cb.rel = "node" /\ cb.raw = 1 /\ cb.direct = 0
  /\ cb.call_frees = 1 /\ cb.dtor_frees = 0
  /\ ~cb.ub

\* C16 (as stated): over any sequence of get(), release(), direct call, one
\* raw call and destruction, the destructor and the invocation never both
\* release the node
C16_NeverBoth == ~(cb.dtor_frees >= 1 /\ cb.call_frees >= 1)

\* C17: when the callable throws inside fn_ptr(data_ptr), the exception
\* reaches the caller, and the stored callable is destroyed and its storage
\* deallocated exactly once: live instances and outstanding allocations are
\* back at their values before packaging.
C17_ThrowStillFrees ==
  (cb.strategy = "allocate" /\ cb.throws /\ cb.calls = 1 /\ ~cb.ub) =>
    /\ cb.exc = 1
    /\ cb.call_frees = 1
    /\ cb.live = 0
    /\ cb.allocs - cb.deallocs = 0

C17_Witness ==
  /\ cb.strategy = "allocate" /\ cb.throws
  /\ cb.rel = "node" /\ cb.raw = 1
  /\ cb.exc = 1 /\ cb.live = 0 /\ cb.deallocs = 1
  /\ ~cb.ub

\* C18: release() returns the data get() returns at that moment and hands
\* the obligation over: a handle destroyed after release() leaves the stored
\* callable alive, a handle destroyed after get() alone frees it.
C18_ReleaseTransfersGetDoesNot ==
  /\ [][cb'.rel # cb.rel => cb'.rel = c_callback_get(cb).got]_vars
  /\ [](cb.strategy = "allocate" =>
          /\ (cb.handle = "destroyed" /\ cb.rel # "none" /\ cb.calls = 0)
               => (cb.live = 1 /\ cb.dtor_frees = 0)
          /\ (cb.handle = "destroyed" /\ ~cb.released /\ cb.got # "none"
               /\ cb.calls = 0)
               => (cb.live = 0 /\ cb.dtor_frees = 1))

\* get(), release() and destruction with no call: both returned the node,
\* the stored callable is still alive
C18_Witness ==
  /\ cb.strategy = "allocate"
  /\ cb.handle = "destroyed"
  /\ cb.got = "node" /\ cb.rel = "node"
  /\ cb.calls = 0 /\ cb.live = 1

\* what a call leaves, without the record of how it was made
Observable(c) == [c EXCEPT !.direct = 0, !.rel = "none"]

\* release() followed by fn_ptr(data_ptr) with the released data
release_then_invoke(c) ==
  fn_ptr(c_callback_release(c), c_callback_release(c).rel)

\* C19: calling the handle leaves what release() followed by
\* fn_ptr(data_ptr) leaves; the callable runs once, that call frees the
\* node, and the destruction of the handle frees nothing more.
C19_DirectCallIsReleaseThenInvoke ==
  /\ (cb.handle = "alive" /\ ~cb.ub) =>
       {Observable(x) : x \in c_callback_call(cb)}
         = {Observable(y) : y \in release_then_invoke(cb)}
  /\ cb.direct >= 1 => cb.released
  /\ (cb.direct = 1 /\ cb.calls = 1 /\ ~cb.ub) =>
       /\ cb.invoked = 1
       /\ cb.strategy = "allocate"
            => (cb.call_frees = 1 /\ cb.dtor_frees = 0)

C19_Witness ==
  /\ cb.strategy = "allocate"
  /\ cb.handle = "destroyed"
  /\ cb.direct = 1 /\ cb.calls = 1 /\ cb.invoked = 1
  /\ cb.call_frees = 1 /\ cb.dtor_frees = 0
  /\ ~cb.ub

\* C20: a std::reference_wrapper input, and a callable that is trivially
\* copyable and no larger than a pointer, are packaged, invoked and
\* destroyed with no allocation and no deallocation; for the
\* reference_wrapper the caller's callable stays alive.
C20_NoAllocationWhenElidable ==
  (cb.handle # "none" /\ (cb.is_ref \/ (cb.small /\ cb.trivial))) =>
    /\ cb.allocs = 0 /\ cb.deallocs = 0
    /\ cb.dtor_frees = 0 /\ cb.call_frees = 0
    /\ cb.is_ref => cb.referent = 1

C20_Witness ==
  /\ cb.is_ref
  /\ cb.handle = "destroyed"
  /\ cb.invoked = 1
  /\ cb.allocs = 0 /\ cb.deallocs = 0
  /\ cb.referent = 1

\* C21: for a trivially copyable callable no larger than a pointer, the
\* callable fn_ptr invokes has the object representation of the callable
\* that was packaged, whatever that representation is.
C21_ElidedRoundTrip ==
  (cb.strategy = "inline" /\ cb.invoked >= 1) => cb.seen = cb.value

\* a callable smaller than a pointer whose bytes differ from the rest of
\* the word has been invoked
C21_Witness ==
  /\ cb.strategy = "inline" /\ ~cb.is_ref
  /\ cb.invoked = 1
  /\ Len(cb.value) < PtrSize
  /\ cb.value[1] = 1 /\ cb.word[PtrSize] = 0
  /\ cb.seen = cb.value

\* the work_items that hold callable v
Holders(v) == {i \in Items : items[i].life = "alive"
                              /\ Stored(items, nodes, i) = v}

\* the storage kind of work_item i in a state
Kind(its, nds, i) ==
  CASE its[i].target = nullptr -> "empty"
    [] is_embedded(its[i], i) /\ its[i].buffer # NoObject -> "inline"
    [] its[i].target \in Nodes /\ nds[its[i].target] # NoObject -> "heap"
    [] OTHER -> "none"

\* C22: a work_item is always in exactly one of the states empty,
\* inline-stored and heap-stored; the default constructor leaves it empty,
\* the constructor from a callable leaves it non-empty, and the conversion
\* to bool is true exactly when it holds a callable.
C22_ExactlyOneState ==
  /\ [](\A i \in Items : items[i].life = "alive" =>
          /\ Cardinality({k \in {"empty", "inline", "heap"} :
                            \/ k = "empty" /\ IsEmpty(i)
                            \/ k = "inline" /\ IsInline(i)
                            \/ k = "heap" /\ IsHeap(i)}) = 1
          /\ operator_bool(items[i], i) <=> (IsInline(i) \/ IsHeap(i)))
  /\ [][\A i \in Items :
          /\ ItemDefault(i) => ~operator_bool(items'[i], i)
          /\ ItemFromCallable(i) =>
               (operator_bool(items'[i], i)
                /\ Stored(items', nodes', i) # NoObject)]_vars

\* an inline-stored work_item was moved into a second one: the source is
\* empty, the destination inline-stored, and a heap-stored one exists too
C22_Witness ==
  \E s, d, h \in Items :
    /\ items[s].life = "alive" /\ IsEmpty(s)
    /\ items[d].life = "alive" /\ IsInline(d) /\ d # s
    /\ items[h].life = "alive" /\ IsHeap(h)
    /\ origin[items[d].buffer].moves = 1
    /\ items[s].buffer = NoObject
    /\ ~item_ub

\* every work_item has been destroyed (or never constructed)
AllItemsGone == \A i \in Items : items[i].life # "alive"

\* C23: the constructor stores the callable inline exactly when its node
\* fits the buffer and its move constructor is nothrow, and then never
\* allocates; otherwise it allocates exactly once, and exactly one
\* deallocation has matched it when the callable is gone.
C23_StorageSelection ==
  \A v \in Callables : origin[v].made =>
    /\ origin[v].kind = "inline"
         <=> (origin[v].fits /\ origin[v].nothrow_move)
    /\ origin[v].kind = "inline"
         => (origin[v].allocs = 0 /\ origin[v].deallocs = 0)
    /\ origin[v].kind # "inline" =>
         /\ origin[v].kind = "heap"
         /\ origin[v].allocs = 1
         /\ origin[v].deallocs = (IF Holders(v) = {} THEN 1 ELSE 0)

\* a callable that fits but may throw when moved went to the heap and was
\* freed, one that fits and cannot throw was stored inline and destroyed
C23_Witness ==
  \E v, w \in Callables :
    /\ origin[v].made /\ origin[v].fits /\ ~origin[v].nothrow_move
    /\ origin[v].kind = "heap"
    /\ origin[v].allocs = 1 /\ origin[v].deallocs = 1
    /\ origin[w].made /\ origin[w].kind = "inline"
    /\ origin[w].allocs = 0 /\ origin[w].live = 0
    /\ ~item_ub

\* C24: a move construction or move assignment into an empty work_item
\* leaves the destination non-empty in the storage kind the source had and
\* the source empty; nothing is allocated or deallocated and the callable
\* still has exactly one live instance.
C24_MoveTransfers ==
  [][\A d, s \in Items :
       (ItemMoveConstruct(d, s) \/ ItemMoveAssign(d, s)) =>
         LET v == Stored(items, nodes, s)
         IN  /\ v # NoObject
             /\ Kind(items', nodes', d) = Kind(items, nodes, s)
             /\ Kind(items', nodes', d) \in {"inline", "heap"}
             /\ Stored(items', nodes', d) = v
             /\ Kind(items', nodes', s) = "empty"
             /\ items'[s].buffer = NoObject
             /\ origin'[v].allocs = origin[v].allocs
             /\ origin'[v].deallocs = origin[v].deallocs
             /\ origin'[v].live = origin[v].live
             /\ origin'[v].live = 1
             /\ origin'[v].moves = origin[v].moves + 1]_vars

\* an inline-stored and a heap-stored callable have both been moved
C24_Witness ==
  \E v, w \in Callables :
    /\ origin[v].kind = "inline" /\ origin[v].moves >= 1
    /\ origin[w].kind = "heap" /\ origin[w].moves >= 1
    /\ Cardinality(Holders(v)) = 1 /\ Cardinality(Holders(w)) = 1
    /\ origin[v].live = 1 /\ origin[w].live = 1
    /\ origin[w].allocs = 1 /\ origin[w].deallocs = 0
    /\ \E s \in Items : items[s].life = "alive" /\ IsEmpty(s)
    /\ ~item_ub

\* how often v occurs in a sequence
Occurrences(seq, v) == Cardinality({k \in 1..Len(seq) : seq[k] = v})

\* C25: invoking a work_item runs the callable it was constructed from, or
\* that was moved into it, exactly once; at any moment exactly one
\* work_item holds a live callable, however often it was moved, and the
\* moved-from work_items hold nothing.
C25_InvokeOnceAfterMoves ==
  /\ [][\A i \in Items :
          (ItemInvoke(i) /\ ~item_ub') =>
            /\ effects' = Append(effects, Stored(items, nodes, i))
            /\ Holders(Stored(items, nodes, i)) = {i}]_vars
  /\ [](\A v \in Callables :
          /\ origin[v].runs = Occurrences(effects, v)
          /\ (origin[v].made /\ origin[v].live >= 1)
               => Cardinality(Holders(v)) = 1
          /\ ~origin[v].made => Holders(v) = {})

\* callable 1 was constructed in work_item 1, moved to 2 and on to 3, and
\* invoked there
C25_Witness ==
  /\ items[1].life = "alive" /\ IsEmpty(1)
  /\ items[2].life = "alive" /\ IsEmpty(2)
  /\ Holders(1) = {3}
  /\ origin[1].moves = 2
  /\ ~origin[2].made
  /\ effects = <<1>>
  /\ ~item_ub

\* C26: when a work_item and all the work_items it was moved into are
\* destroyed, no allocation of its callable is outstanding and no copy of
\* the callable is alive, whether it was moved, invoked, or threw.
C26_NothingLeftAfterDestruction ==
  \A v \in Callables :
    /\ origin[v].live = Cardinality(Holders(v))
    /\ (AllItemsGone /\ ~item_ub) =>
         (origin[v].allocs - origin[v].deallocs = 0 /\ origin[v].live = 0)

\* a heap-stored callable that threw when invoked and an inline-stored one
\* that returned, both moved, all work_items destroyed
C26_Witness ==
  /\ \A i \in Items : items[i].life = "destroyed"
  /\ origin[1].kind = "heap" /\ origin[1].throws /\ origin[1].exc = 1
  /\ origin[1].allocs = 1 /\ origin[1].deallocs = 1
  /\ origin[2].kind = "inline" /\ origin[2].runs = 1
  /\ origin[1].moves >= 1 /\ origin[2].moves >= 1
  /\ \A v \in Callables : origin[v].live = 0
  /\ ~item_ub

\* C27: however many threads call shutdown() and finalize(), however often
\* and in whatever interleaving, nativeShutdown is called at most once, by
\* the first caller, and it has been called once when a call has returned.
C27_NativeShutdownOnce ==
  /\ Len(nativeShutdowns) <= 1
  /\ nativeShutdowns # << >> => nativeShutdowns[1] = jgas[1]
  /\ (jgas # << >> /\ \A t \in JavaThreads : jpc[t] = "idle")
       => Len(nativeShutdowns) = 1

\* both threads have called shutdown(), one of them twice; all calls have
\* returned and the first caller made the one native call
C27_Witness ==
  /\ \A t \in JavaThreads : jpc[t] = "idle" /\ jcalls[t] >= 1
  /\ \E t \in JavaThreads : jcalls[t] = 2
  /\ Len(jgas) = 3 /\ jgas[1] = 2
  /\ nativeShutdowns = <<2>>
  /\ ~jub

\* the owners that still hold the shared pool
Owners ==
  (IF cpp_owner = "alive" THEN 1 ELSE 0) + (IF jhandle = "alive" THEN 1 ELSE 0)

\* C28: the C++ object and the Java executor share one pool: it runs
\* while at least one of them holds it, takes the submissions of an owner,
\* and is stopped exactly when the last of them has let go.
C28_SharedOwnership ==
  /\ [](shared_pool # "none" =>
          /\ use_count = Owners
          /\ shared_pool = "running" <=> Owners >= 1
          /\ shared_pool = "stopped" <=> Owners = 0)
  /\ [][/\ CppSchedule => jaccepted' = jaccepted + 1
         /\ \A t \in JavaThreads :
              (JavaExecute(t) /\ jhandle = "alive")
                => jaccepted' = jaccepted + 1]_vars

\* the C++ object is gone, the Java executor keeps the pool running and
\* has submitted to it
C28_Witness ==
  /\ cpp_owner = "destroyed"
  /\ jhandle = "alive" /\ ~jdestroyed
  /\ shared_pool = "running" /\ use_count = 1
  /\ jaccepted = MaxSharedSubmissions
  /\ ~jub

\* C29: a submission that obtained s from the counter attempts try_push on
\* the queues (s + k) mod N for k = 0..N-1 in that order
C29_TryPushOrder ==
  \A t \in Threads :
    spc[t] = "try_push" =>
      ScheduleIndex(sthread[t], si[t]) = (sthread[t] + si[t]) % num_threads

\* worker w is inside the steal loop or the blocking pop of an iteration
Fetching(w) == wpc[w] \in {"try_pop", "pop_lock", "pop_check", "pop_wait"}

\* C30: in an iteration worker w makes at most N * 8 try_pop attempts,
\* attempt j on queue (w + j) mod N, and leaves the loop at the first
\* success; it goes on to the blocking pop only after N * 8 failures and
\* only on its own queue, so it never waits on or locks another worker's
\* queue in pop, and never while it holds a payload.
C30_StealThenBlockOnOwnQueue ==
  /\ [](\A w \in Workers :
          /\ wpc[w] = "try_pop" => wi[w] < num_threads * 8
          /\ Fetching(w) => wf[w] = Empty
          /\ \A q \in Workers :
               (w \in ready[q] \/ (Fetching(w) /\ mutex[q] = w)) => q = w
          /\ wpc[w] = "pop_wait" => w \in ready[w])
  /\ [][\A w \in Workers :
          /\ (wpc[w] = "try_pop" /\ wpc'[w] = "invoke") =>
               /\ queue[(w + wi[w]) % num_threads] # << >>
               /\ queue'[(w + wi[w]) % num_threads]
                    = Tail(queue[(w + wi[w]) % num_threads])
               /\ wf'[w] = Head(queue[(w + wi[w]) % num_threads])
               /\ \A q \in Workers \ {(w + wi[w]) % num_threads} :
                    queue'[q] = queue[q]
          /\ (wpc[w] = "try_pop" /\ wpc'[w] = "try_pop"
              /\ wi'[w] # wi[w]) => wi'[w] = wi[w] + 1
          /\ (wpc[w] = "try_pop" /\ wpc'[w] = "pop_lock") =>
               wi[w] = num_threads * 8 - 1
          /\ (wpc[w] = "pop_check" /\ wpc'[w] = "invoke") =>
               (queue'[w] = Tail(queue[w]) /\ wf'[w] = Head(queue[w]))]_vars

\* worker 0 is blocked in pop on its own queue after all its attempts
\* failed, worker 1 has taken a payload from queue 0 with try_pop
C30_Witness ==
  /\ num_threads = 2
  /\ wpc[0] = "pop_wait" /\ 0 \in ready[0]
  /\ wpc[1] = "invoke" /\ wf[1] # Empty
  /\ popLog[0] = <<wf[1]>> /\ popLog[1] = << >>

(* ---- try_push ---- *)

\* the try_push thread t is in returns false in this step
TryPushReturnsFalse(t) ==
  /\ spc[t] = "try_push"
  /\ \/ spc'[t] = "push_lock"
     \/ spc'[t] = "try_push" /\ si'[t] # si[t]

\* the try_push thread t is in has appended and is about to return true
TryPushReturnsTrue(t) ==
  /\ spc[t] = "try_push"
  /\ spc'[t] = "try_push_notify"

\* C31: a try_push that does not get the mutex returns false and changes
\* nothing: every queue and every mutex is as before and the caller's payload
\* is still the same non-empty payload; only the try_push that returns true
\* appends the payload at the back of its queue and leaves the caller's
\* payload empty, and the payload of a thread inside try_push changes in no
\* other way.
C31_TryPushFrame ==
  [][\A t \in Threads :
       LET q == ScheduleIndex(sthread[t], si[t]) IN
         /\ TryPushReturnsFalse(t) =>
               /\ queue' = queue
               /\ mutex' = mutex
               /\ sf[t] # Empty
               /\ sf'[t] = sf[t]
         /\ TryPushReturnsTrue(t) =>
               /\ sf[t] # Empty
               /\ queue' = [queue EXCEPT ![q] = Append(@, sf[t])]
               /\ sf'[t] = Empty
         /\ (spc[t] = "try_push" /\ sf'[t] # sf[t]) => TryPushReturnsTrue(t)
         /\ (spc[t] = "try_push" /\ queue' # queue /\ spc'[t] # spc[t]) =>
               TryPushReturnsTrue(t)]_vars

\* a submission whose first try_push failed and whose later one succeeded
C31_Witness ==
  \E t \in Threads :
    LET q == ScheduleIndex(sthread[t], si[t]) IN
      /\ spc[t] = "try_push_notify"
      /\ si[t] >= 1
      /\ sf[t] = Empty
      /\ queue[q] # << >>
      /\ queue[q][Len(queue[q])] = pushLog[q][Len(pushLog[q])]

(* ---- pop ---- *)

\* worker w is inside pop() with the mutex held and pop returns true in this
\* step
PopReturnsTrue(w) == wpc[w] = "pop_check" /\ wpc'[w] = "invoke"

\* worker w is inside pop() with the mutex held and pop returns false in this
\* step
PopReturnsFalse(w) == wpc[w] = "pop_check" /\ wpc'[w] = "exited"

QCriticalSection(t) ==
  \/ QPush(t)
  \/ QTryPopFalse(t)
  \/ QTryPopTrue(t)
  \/ QClearSwap(t)
  \/ QClearUnlock(t)

\* the payloads that clear() calls have taken out of the queue
Cleared == mdropped \cup UNION {Content(qtemp[t]) : t \in QueueThreads}

\* C33: clear() takes every queued payload out of the queue and invokes none
\* of them (a payload that clear() took is never invoked), and the queue is
\* empty afterwards; a try_pop that finds the queue empty returns false in its
\* next step, with its output payload and the queue as they were; and a
\* thread that holds the queue mutex in push, try_pop or clear can always
\* take its next step, whatever the queue holds: none of them waits for a
\* payload.
C33_ClearAndNoWaiting ==
  /\ [][\A t \in QueueThreads :
          /\ (qpc[t] = "cs" /\ qop[t] = "clear" /\ qpc'[t] # "cs") =>
                /\ mqueue' = << >>
                /\ qtemp'[t] = mqueue \o qtemp[t]
                /\ minvoked' = minvoked
          /\ (qpc[t] = "cs" /\ qop[t] = "try_pop" /\ mqueue = << >>
                /\ qpc'[t] # "cs") =>
                /\ qpc'[t] \in {"idle", "destroy"}
                /\ qf'[t] = qf[t]
                /\ mqueue' = mqueue
                /\ qmutex' = NoThread]_vars
  /\ [](Cleared \cap Content(minvoked) = {})
  /\ [](\A t \in QueueThreads :
          qpc[t] \in {"cs", "unlock"} => ENABLED QCriticalSection(t))

\* no payload destructor has used the queue; a payload was dropped by clear(),
\* and a payload pushed after it has been pushed, popped and invoked: the
\* queue was usable after clear(); and a try_pop is returning false
C33_Witness ==
  /\ \A p \in 1..MaxMainPayloads : qreentered[p] = "none"
  /\ \E d \in mdropped : \E k \in 1..Len(mpushLog) : \E n \in 1..Len(mpushLog) :
       /\ k < n
       /\ mpushLog[k] = d
       /\ mpushLog[n] \in Content(minvoked)
  /\ \E t \in QueueThreads :
       qpc[t] = "cs" /\ qop[t] = "try_pop" /\ mqueue = << >>

\* C38: while clear() destroys the payloads it took out of the queue the
\* calling thread does not hold the queue mutex, so a thread that waits for
\* the mutex, in particular inside a push, try_pop or clear called by the
\* destructor of such a payload, never waits for a mutex it holds itself:
\* the mutex is free or held by another thread that can take its next step.
C38_ClearDestroysUnlocked ==
  \A t \in QueueThreads :
    /\ qpc[t] = "destroy" => qmutex # t
    /\ qpc[t] = "lock" =>
         \/ qmutex = NoThread
         \/ \E u \in QueueThreads \ {t} :
              qmutex = u /\ ENABLED QCriticalSection(u)

\* payloads dropped by clear() whose destructors called push, try_pop and
\* clear have been destroyed
C38_Witness ==
  \A op \in QueueOps : \E p \in mdropped : qreentered[p] = op

(* ---- android_main_looper: the signal pipe ---- *)

\* every write() of post() so far has written its byte
NoFailedPost == msent = mborn - (IF mspc = "signal" THEN 1 ELSE 0)

\* C34: for an android_main_looper that is live, as long as no write to the
\* pipe has failed and no destructor has called clear(): the unread bytes of
\* the pipe, counting the byte a looper_callback has read without having
\* called try_pop yet, are never more than the queued payloads, so that
\* try_pop finds a payload; and when no schedule() is between push and post
\* and no looper_callback is running, there are exactly as many unread bytes
\* as queued payloads.
C34_BytesMatchQueue ==
  (mkind = "android" /\ mlife = "live" /\ ~mcleared /\ NoFailedPost) =>
    /\ msignals + (IF mcpc = "try_pop" THEN 1 ELSE 0) <= Len(mqueue)
    /\ (mspc = "none" /\ mcpc = "idle") => msignals = Len(mqueue)

\* a payload was delivered, a looper_callback has read the next byte and is
\* about to call try_pop, and a schedule() has pushed a third payload whose
\* byte is not written yet
C34_Witness ==
  /\ mkind = "android" /\ mlife = "live" /\ ~mcleared /\ NoFailedPost
  /\ minvoked # << >>
  /\ mcpc = "try_pop"
  /\ mspc = "signal"
  /\ Len(mqueue) = msignals + 2

(* ---- schedule(): the queues of one submission ---- *)

\* the queue indices the N try_push attempts of a submission that read
\* `thread` from _next_thread compute
TriedQueues(thread) == {ScheduleIndex(thread, i) : i \in 0..(num_threads - 1)}

\* C35: whatever value a submission read from the round-robin counter, the
\* queue indices of its N try_push attempts lie in 0..N-1 and are pairwise
\* distinct: together they are all N queues.
C35_DistinctQueues ==
  \A t \in Threads :
    spc[t] = "try_push" =>
      /\ ScheduleIndex(sthread[t], si[t]) \in 0..(num_threads - 1)
      /\ TriedQueues(sthread[t]) = 0..(num_threads - 1)

(* ---- run(): leaving the loop ---- *)

\* the pool destructor has been entered
DtorStarted ==
  opc \in {"done_lock", "done_set", "done_notify", "join", "destroy_members",
           "destroyed"}

\* C36: a worker returns from run() only in a step in which it holds the
\* mutex of its own queue and finds that queue empty with done set; done is
\* set only by the destructor, so while the destructor has not been entered
\* no worker has returned from run(), whatever the queues hold and however
\* the steal attempts end.
C36_WorkerLeavesOnlyAfterDone ==
  /\ [][\A w \in Workers :
          (wpc[w] # "exited" /\ wpc'[w] = "exited") =>
            /\ wpc[w] = "pop_check"
            /\ mutex[w] = w
            /\ done[w]
            /\ queue[w] = << >>]_vars
  /\ [](\A w \in Workers : wpc[w] = "exited" => (done[w] /\ DtorStarted))
  /\ [](\A w \in Workers : done[w] => DtorStarted)

\* a worker from whose queue payloads were taken has left run(), while
\* another worker is still running a task
C36_Witness ==
  \E w, v \in Workers :
    /\ wpc[w] = "exited"
    /\ popLog[w] # << >>
    /\ wpc[v] = "running"

(* ---- the payload preconditions ---- *)

\* the pool and the main-thread schedulers share no state: an execution of
\* both is an execution of each, so the pool runs while no main-thread
\* scheduler was constructed, or the schedulers run while the pool has not
\* started its first thread
PayloadNext ==
  \/ mkind = "none" /\ Next
  \/ opc = "start" /\ threads = << >> /\ MainNext

PayloadSpec == Init /\ [][PayloadNext]_vars

\* the payloads a sequence of payloads holds are all non-empty
AllNonEmpty(qu) == \A k \in 1..Len(qu) : qu[k] # Empty

\* C37: every payload stored in a queue of the pool or in the main-thread
\* queue is non-empty; a submitter holds a non-empty payload until a queue
\* has taken it, also when it enters the fallback push; try_pop and pop are
\* called with an empty local payload and fill it from a non-empty front
\* element; every append to a queue moves a submitter's non-empty payload;
\* and a worker or trampoline that invokes holds a non-empty payload.
C37_PayloadPreconditions ==
  /\ [](\A q \in DOMAIN queue : AllNonEmpty(queue[q]))
  /\ [](AllNonEmpty(mqueue))
  /\ [](\A t \in Threads :
          spc[t] \in {"try_push", "push_lock", "push_cs"} => sf[t] # Empty)
  /\ [](\A w \in Workers :
          /\ wpc[w] \in {"try_pop", "pop_lock", "pop_check", "pop_wait"} =>
               wf[w] = Empty
          /\ wpc[w] \in {"invoke", "running"} => wf[w] # Empty)
  /\ [](/\ mcpc = "try_pop" => mcf = Empty
        /\ mcpc \in {"invoke", "running"} => mcf # Empty)
  /\ [][\A w \in Workers :
          (wf'[w] # wf[w] /\ wf'[w] # Empty) =>
            /\ wf[w] = Empty
            /\ \E q \in DOMAIN queue :
                 /\ queue[q] # << >>
                 /\ wf'[w] = Head(queue[q])
                 /\ queue'[q] = Tail(queue[q])]_vars
  /\ [][\A q \in DOMAIN queue :
          Len(queue'[q]) > Len(queue[q]) =>
            \E t \in Threads :
              /\ sf[t] # Empty
              /\ sf'[t] = Empty
              /\ queue'[q] = Append(queue[q], sf[t])]_vars
  /\ [][(mcf' # mcf /\ mcf' # Empty) =>
          /\ mcf = Empty
          /\ mqueue # << >>
          /\ mcf' = Head(mqueue)
          /\ mqueue' = Tail(mqueue)]_vars

\* after its try_push attempts failed a submission has stored its payload
\* with the fallback push, and a worker is about to invoke a payload it
\* popped
C37_Witness ==
  /\ \E t \in Threads :
       /\ spc[t] = "push_notify"
       /\ sf[t] = Empty
       /\ pushLog[ScheduleIndex(sthread[t], 0)] # << >>
  /\ \E w \in Workers : wpc[w] = "invoke" /\ wf[w] # Empty

(* ---- several main-thread schedulers ---- *)

\* C39: the clear() of a scheduler's destructor drops only payloads that were
\* submitted through that scheduler; a payload submitted through another
\* scheduler that is still live stays in the queue.
C39_DestructionDropsOnlyOwn ==
  [][\A s \in Loopers :
       (loopers[s].life = "unregistered" /\ loopers'[s].life = "destroyed") =>
         /\ \A p \in mdropped' \ mdropped : mvia[p] = s
         /\ \A p \in Content(mqueue) :
              (mvia[p] # s /\ loopers[mvia[p]].life = "live") =>
                p \in Content(mqueue')]_vars

(* ---- android_main_looper: a failed signal ---- *)

\* the schedule() in progress leaves post() in this step without a byte
\* written to the pipe
PostFails ==
  /\ mkind = "android"
  /\ mspc = "signal"
  /\ mspc' = "none"
  /\ msent' = msent

\* C40: a submit whose write to the signal pipe fails does not return
\* normally, and the payload it pushed is not in the main-thread queue
\* afterwards.
C40_FailedSignalRollsBack ==
  [][PostFails =>
       /\ mreturned' = mreturned
       /\ mborn \notin Content(mqueue')]_vars

====
